---- MODULE Spec2Model ----
(***************************************************************************)
(* A model of apikit's generation pipeline (reation-io/apikit).            *)
(*                                                                         *)
(*  Part 1  the incremental regeneration gate: cmd `apikit generate`       *)
(*          (runGenerate / generateWithParser) and package checksum.       *)
(*                                                                         *)
(*  Part 2  the field classifier registry (package extractors) and the     *)
(*          extraction code it emits (codegen.generateExtractionCode).     *)
(*                                                                         *)
(* Abstractions shared by all parts:                                       *)
(*  - text is a sequence of lines, a line is a record;                     *)
(*  - SHA-256 is modelled as a collision-free digest of the content;       *)
(*  - a name is a sequence of one-character strings;                       *)
(*  - emitted Go code is a syntax tree, and is run by an interpreter;      *)
(*  - file I/O never fails once the file exists (I/O plumbing is out of    *)
(*    the scope of the specification).                                     *)
(***************************************************************************)
EXTENDS Integers, Sequences, FiniteSets, TLC

VARIABLES
    src,         \* gate: source file -> its current content on disk
    art,         \* gate: output path -> artifact on disk (NoFile or lines)
    prov,        \* gate: output path -> which generation wrote it (ghost)
    flags,       \* gate: the command line and environment of the current run
    force,       \* gate: the package variable `force` of cmd/generate.go
    queue,       \* gate: resolvedFiles still to be processed in this run
    pc,          \* gate: "idle" between runs, "running" inside runGenerate
    last,        \* gate: what generateWithParser did for the last file (ghost)
    extractors,  \* classifiers: globalRegistry.extractors
    cur,         \* classifiers: the struct handed to generateExtractionCode
    lines,       \* classifiers: the fragments generateExtractionCode emitted
    fired,       \* classifiers: the GenerateCode calls it made (ghost)
    outcome,     \* classifiers: a run of the emitted code on a raw value
    multi,       \* classifiers: a run of emitted slice code on several values
    codecs,      \* classifiers: the type names given to types.Register
    world,       \* resolver: the source file being parsed
    heap,        \* resolver: the Struct objects allocated, by address
    structs,     \* resolver: Parser.structs, type name -> address
    result,      \* resolver: ParseResult.Structs, name -> address
    todo,        \* resolver: roots the loop of ParseFile has yet to visit
    visited,     \* resolver: the visited map of the root being resolved
    stack,       \* resolver: the calls of resolveNestedStructsRecursive
    rpc,         \* resolver: where ParseFile is
    run,         \* resolver: first or second run on the same source
    first,       \* resolver: what the first run produced (ghost)
    hpc,         \* handlers: where ParseFile is in its second pass
    nfuncs,      \* handlers: the number of FuncDecl nodes of the file
    decl,        \* handlers: the FuncDecl the callback was last called with
    marks,       \* handlers: per function seen, whether it is marked (ghost)
    Handlers,    \* handlers: ParseResult.Handlers
    Warnings,    \* handlers: ParseResult.Warnings
    data,        \* handlers: TemplateData.Handlers, built by prepareTemplateData
    parsedFiles, \* cache: CachedParser.parsedFiles
    readers,     \* cache: the goroutines holding mu for reading
    writer,      \* cache: the goroutine holding mu for writing, or 0
    calls,       \* cache: per goroutine, the call it is in or made last
    objects,     \* cache: the ParseResult objects allocated so far
    returned     \* cache: per file, what Parse returned since a clear (ghost)

gateVars == <<src, art, prov, flags, force, queue, pc, last>>

extractVars == <<extractors, cur, lines, fired, outcome, multi, codecs>>

resolveVars == <<world, heap, structs, result, todo, visited, stack, rpc,
                 run, first>>

handlerVars == <<hpc, nfuncs, decl, marks, Handlers, Warnings, data>>

cacheVars == <<parsedFiles, readers, writer, calls, objects, returned>>

restVars == <<handlerVars, cacheVars>>

vars == <<src, art, prov, flags, force, queue, pc, last,
          extractors, cur, lines, fired, outcome, multi, codecs,
          world, heap, structs, result, todo, visited, stack, rpc, run, first,
          hpc, nfuncs, decl, marks, Handlers, Warnings, data,
          parsedFiles, readers, writer, calls, objects, returned>>

----------------------------------------------------------------------------
(* Bounds *)

MaxVer == 2          \* distinct revisions of a source text per kind
MaxFiles == 2        \* source files known to the model
MaxVals == 2         \* values a request carries for one repeated parameter
MaxFuncs == 2        \* function declarations in a parsed file
MaxProcs == 2        \* goroutines sharing one CachedParser
MaxParses == 3       \* calls of CachedParser.Parse made in one behaviour

----------------------------------------------------------------------------
(* Part 2: the classifier registry *)

Range(f) == {f[i] : i \in DOMAIN f}

\* The extractors registered by the init functions of package extractors,
\* with their Priority().
Builtins == {"path", "form", "query", "header", "cookie", "body",
             "request", "response"}

\* mockExtractor of the registry tests: a classifier registered by a user.
Mocks == {"mockAll", "mockNone"}

ExtractorNames == Builtins \cup Mocks

Priority(e) ==
    CASE e = "path" -> 10
      [] e = "form" -> 15
      [] e = "query" -> 20
      [] e = "header" -> 30
      [] e = "cookie" -> 35
      [] e = "body" -> 40
      [] e = "request" -> 50
      [] e = "response" -> 60
      [] e = "mockAll" -> 20
      [] e = "mockNone" -> 5

\* Mutant: the comparator is reversed.
RECURSIVE SortFunc_Descending(_)
SortFunc_Descending(S) ==
    IF S = {} THEN {<<>>}
    ELSE LET most == {e \in S : \A x \in S : Priority(e) >= Priority(x)}
         IN UNION {{<<e>> \o t : t \in SortFunc_Descending(S \ {e})}
                       : e \in most}

\* The results slices.SortFunc can leave for the elements S compared by
\* Priority: every arrangement in non-decreasing priority (the sort is not
\* stable, so elements of equal priority come in any order).
RECURSIVE SortFunc(_)
SortFunc(S) ==
    IF S = {} THEN {<<>>}
    ELSE LET least == {e \in S : \A x \in S : Priority(e) <= Priority(x)}
         IN UNION {{<<e>> \o t : t \in SortFunc(S \ {e})} : e \in least}

\* Register: append, then sort the whole list.
Register(e) ==
    /\ e \notin Range(extractors)
    /\ extractors' \in SortFunc(Range(Append(extractors, e)))
    /\ cur' = <<>>
    /\ lines' = <<>>
    /\ fired' = <<>>
    /\ outcome' = <<>>
    /\ multi' = <<>>
    /\ UNCHANGED <<codecs, gateVars, resolveVars, restVars>>

GetExtractors == extractors

ExtractIdle ==
    /\ extractors = <<>>
    /\ cur = <<>>
    /\ lines = <<>>
    /\ fired = <<>>
    /\ outcome = <<>>
    /\ multi = <<>>
    /\ codecs = {}

\* No file is being parsed.
ResolveIdle ==
    /\ world = <<>>
    /\ heap = <<>>
    /\ structs = <<>>
    /\ result = <<>>
    /\ todo = {}
    /\ visited = {}
    /\ stack = <<>>
    /\ rpc = "idle"
    /\ run = 1
    /\ first = <<>>

\* The second pass of ParseFile has not begun.
HandlerIdle ==
    /\ hpc = "idle"
    /\ nfuncs = 0
    /\ decl = [marked |-> FALSE, Params |-> <<>>, Results |-> <<>>]
    /\ marks = <<>>
    /\ Handlers = <<>>
    /\ Warnings = <<>>
    /\ data = <<>>

\* The goroutines that share the CachedParser.
Procs == 1..MaxProcs

\* The file names handed to the parser; bad.go is not valid Go.
Paths == {"a.go", "b.go", "bad.go"}

\* The nil *ParseResult.
NoResult == [file |-> "", id |-> 0]

\* A call of goroutine p as it starts; seen is a ghost, what Parse had
\* returned for the file when the call was made; so is stale, which tells
\* that the file was invalidated after this call had parsed it.
Call(op, f, pc0, s) ==
    [op |-> op, file |-> f, pc |-> pc0, result |-> NoResult, err |-> FALSE,
     answer |-> 0, seen |-> s, stale |-> FALSE]

\* NewCachedParser: an empty map, a free mutex, and no call in progress.
CacheIdle ==
    /\ parsedFiles = <<>>
    /\ readers = {}
    /\ writer = 0
    /\ calls = [p \in Procs |-> Call("", "", "idle", {})]
    /\ objects = 0
    /\ returned = [f \in Paths |-> {}]

----------------------------------------------------------------------------
(* Part 2: fields, structured tags and the helpers of package extractors *)

Nil == <<>>                 \* a nil pointer, an empty string, no code

\* Type names, with what parseField and the helpers read off their text.
PointerTypes == {"*int", "*string", "*http.Request", "*multipart.FileHeader"}
SliceTypes == {"[]string", "[]int", "[]byte", "[]*multipart.FileHeader",
               "[]uint", "[]float64", "[]bool", "[]time.Time"}

\* typeToString(arrayType.Elt)
SliceElem(t) ==
    CASE t = "[]string" -> "string"
      [] t = "[]int" -> "int"
      [] t = "[]byte" -> "byte"
      [] t = "[]*multipart.FileHeader" -> "*multipart.FileHeader"
      [] t = "[]uint" -> "uint"
      [] t = "[]float64" -> "float64"
      [] t = "[]bool" -> "bool"
      [] t = "[]time.Time" -> "time.Time"
      [] OTHER -> ""

\* strings.TrimPrefix(typeName, "*")
TrimStar(t) ==
    CASE t = "*int" -> "int"
      [] t = "*string" -> "string"
      [] t = "*http.Request" -> "http.Request"
      [] t = "*multipart.FileHeader" -> "multipart.FileHeader"
      [] OTHER -> t

\* Field names: those parseField treats specially, and ordinary ones.
Names ==
    [RawBody |-> <<"R", "a", "w", "B", "o", "d", "y">>,
     Raw |-> <<"R", "a", "w">>,
     Response |-> <<"R", "e", "s", "p", "o", "n", "s", "e">>,
     Res |-> <<"R", "e", "s">>,
     Request |-> <<"R", "e", "q", "u", "e", "s", "t">>,
     Req |-> <<"R", "e", "q">>,
     ID |-> <<"I", "D">>,
     Age |-> <<"A", "g", "e">>,
     url |-> <<"u", "r", "l">>,
     File |-> <<"F", "i", "l", "e">>,
     In |-> <<"I", "n">>,
     Filter |-> <<"F", "i", "l", "t", "e", "r">>,
     Tags |-> <<"T", "a", "g", "s">>]

\* parseField, the named-field branch: the Field built for a declaration
\* with this name, type, tag and `in:` comment.
Field(name, type, tag, inComment, inCommentName) ==
    [Name |-> name, Type |-> type, StructTag |-> tag,
     InComment |-> inComment, InCommentName |-> inCommentName,
     IsPointer |-> type \in PointerTypes,
     IsSlice |-> type \in SliceTypes,
     SliceType |-> SliceElem(type),
     IsEmbedded |-> FALSE,
     IsBody |-> inComment = "body",
     IsRawBody |-> type = "[]byte" /\ name \in {Names.RawBody, Names.Raw},
     IsResponseWriter |-> name \in {Names.Response, Names.Res}
                              /\ type = "http.ResponseWriter",
     IsRequest |-> name \in {Names.Request, Names.Req} /\ type = "*http.Request",
     IsFile |-> type \in {"*multipart.FileHeader", "[]*multipart.FileHeader"},
     NestedStruct |-> Nil]

\* parseField, the embedded branch, after nested resolution.
Embedded(name, type, nested) ==
    [Field(name, type, <<>>, "", <<>>) EXCEPT
        !.IsEmbedded = TRUE, !.IsRawBody = FALSE, !.IsResponseWriter = FALSE,
        !.IsRequest = FALSE, !.NestedStruct = nested]

\* reflect.StructTag.Lookup on a conventional tag: the first pair with the key.
RECURSIVE LookupFrom(_, _, _)
LookupFrom(tag, i, key) ==
    IF i > Len(tag) THEN [ok |-> FALSE, val |-> <<>>]
    ELSE IF tag[i].key = key THEN [ok |-> TRUE, val |-> tag[i].val]
    ELSE LookupFrom(tag, i + 1, key)

Lookup(tag, key) == LookupFrom(tag, 1, key)

\* reflect.StructTag.Get
Get(tag, key) == Lookup(tag, key).val

\* CanExtract of each extractor.
TagOrComment(field, source) ==
    \/ field.StructTag # <<>> /\ Lookup(field.StructTag, source).ok
    \/ field.InComment = source

CanExtract(e, field) ==
    CASE e \in {"path", "query", "header", "cookie"} -> TagOrComment(field, e)
      [] e = "form" ->
            /\ ~(field.IsRequest \/ field.IsResponseWriter \/ field.IsRawBody)
            /\ TagOrComment(field, "form")
      [] e = "body" ->
            /\ ~(field.IsRequest \/ field.IsResponseWriter \/ field.IsRawBody)
            /\ \/ field.IsBody
               \/ field.StructTag # <<>> /\ Lookup(field.StructTag, "json").ok
      [] e = "request" -> field.IsRequest
      [] e = "response" -> field.IsResponseWriter
      [] e = "mockAll" -> TRUE
      [] e = "mockNone" -> FALSE

\* GetExtractor: the first registered extractor that accepts the field.
NoExtractor == ""          \* the nil Extractor

RECURSIVE GetExtractorFrom(_, _)
GetExtractorFrom(k, field) ==
    IF k > Len(extractors) THEN NoExtractor
    ELSE IF CanExtract(extractors[k], field) THEN extractors[k]
    ELSE GetExtractorFrom(k + 1, field)

GetExtractor(field) == GetExtractorFrom(1, field)

\* The letters 'A'..'Z' and what adding 32 to each gives.
UpperCase == <<"A", "B", "C", "D", "E", "F", "G", "H", "I", "J", "K", "L", "M",
               "N", "O", "P", "Q", "R", "S", "T", "U", "V", "W", "X", "Y", "Z">>
LowerCase == <<"a", "b", "c", "d", "e", "f", "g", "h", "i", "j", "k", "l", "m",
               "n", "o", "p", "q", "r", "s", "t", "u", "v", "w", "x", "y", "z">>

ToLower(ch) ==
    IF \E i \in DOMAIN UpperCase : UpperCase[i] = ch
    THEN LowerCase[CHOOSE i \in DOMAIN UpperCase : UpperCase[i] = ch]
    ELSE ch

\* toCamelCase: the first rune, if in A-Z, is made lower case.
toCamelCase(name) ==
    IF name = <<>> THEN name
    ELSE <<ToLower(name[1])>> \o Tail(name)

\* Mutant: the comment name wins over the tag value.
GetParameterName_CommentFirst(field, tagName) ==
    IF field.InCommentName # <<>> THEN field.InCommentName
    ELSE IF field.StructTag # <<>> /\ Lookup(field.StructTag, tagName).ok
              /\ Lookup(field.StructTag, tagName).val # <<>>
         THEN Lookup(field.StructTag, tagName).val
         ELSE toCamelCase(field.Name)

GetParameterName(field, tagName) ==
    IF field.StructTag # <<>> /\ Lookup(field.StructTag, tagName).ok
          /\ Lookup(field.StructTag, tagName).val # <<>>
    THEN Lookup(field.StructTag, tagName).val
    ELSE IF field.InCommentName # <<>> THEN field.InCommentName
    ELSE toCamelCase(field.Name)

GetDefaultTag(field) ==
    IF field.StructTag = <<>> THEN <<>> ELSE Get(field.StructTag, "default")

GetBaseType(field) ==
    LET t1 == IF field.IsPointer THEN TrimStar(field.Type) ELSE field.Type
    IN IF field.IsSlice THEN field.SliceType ELSE t1

IsIntType(t) == t \in {"int", "int8", "int16", "int32", "int64"}
IsUintType(t) == t \in {"uint", "uint8", "uint16", "uint32", "uint64"}
IsFloatType(t) == t \in {"float32", "float64"}
IsBoolType(t) == t = "bool"
IsStringType(t) == t = "string"

----------------------------------------------------------------------------
(* Part 2: the emitted extraction code, as syntax trees *)

\* if x, err := fn(arg, ...); err == nil { payload.dst = cast(x) }
\* else { return fmt.Errorf("invalid dst: %w", err) }
\* (with ptr: val := cast(x); payload.dst = &val)
ReturnErr(dst) == [op |-> "return", invalid |-> dst]

ParseStmt(fn, arg, cast, dst, ptr) ==
    [op |-> "parse", fn |-> fn, arg |-> arg, cast |-> cast, dst |-> dst,
     ptr |-> ptr, onError |-> ReturnErr(dst)]

\* payload.dst = expr
AssignStmt(dst, expr) == [op |-> "assign", dst |-> dst, expr |-> expr]

ValExpr(v) == [e |-> "var", name |-> v]
LitExpr(text, quoted) == [e |-> "lit", text |-> text, quoted |-> quoted]
CastExpr(type, v) == [e |-> "cast", type |-> type, name |-> v]
AddrOfCopy(v) == [e |-> "addrOfCopy", name |-> v]

GenerateIntParsing(varName, fieldName, typeName) ==
    ParseStmt("strconv.ParseInt", varName, typeName, fieldName, FALSE)

GenerateUintParsing(varName, fieldName, typeName) ==
    ParseStmt("strconv.ParseUint", varName, typeName, fieldName, FALSE)

GenerateFloatParsing(varName, fieldName, bitSize) ==
    ParseStmt("strconv.ParseFloat", varName,
              IF bitSize = "32" THEN "float32" ELSE "float64", fieldName, FALSE)

GenerateBoolParsing(varName, fieldName) ==
    ParseStmt("strconv.ParseBool", varName, "", fieldName, FALSE)

\* Package types: the codec registry as built by NewRegistry and
\* registerFileTypes.
RegisteredTypes ==
    {"string", "int", "int8", "int16", "int32", "int64", "uint", "uint8",
     "uint16", "uint32", "uint64", "float32", "float64", "bool", "time.Time",
     "*multipart.FileHeader", "[]*multipart.FileHeader"}

TypeImport(t) ==
    CASE t = "time.Time" -> "github.com/reation-io/apikit/pkg/apikit"
      [] t \in {"*multipart.FileHeader", "[]*multipart.FileHeader"} ->
            "mime/multipart"
      [] OTHER -> ""

\* Extractor.ParseFunc of the registered type t: that of the codec given
\* to Register at run time, if any, over the built-in one.
ParseFunc(t, varName, fieldName, isPointer) ==
    CASE t \in codecs ->
            ParseStmt("custom.Parse", varName, t, fieldName, isPointer)
      [] t = "string" ->
            IF isPointer THEN AssignStmt(fieldName, AddrOfCopy(varName))
            ELSE AssignStmt(fieldName, ValExpr(varName))
      [] IsIntType(t) ->
            ParseStmt("strconv.ParseInt", varName, t, fieldName, isPointer)
      [] IsUintType(t) ->
            ParseStmt("strconv.ParseUint", varName, t, fieldName, isPointer)
      [] IsFloatType(t) ->
            ParseStmt("strconv.ParseFloat", varName, t, fieldName, isPointer)
      [] t = "bool" ->
            ParseStmt("strconv.ParseBool", varName, "", fieldName, isPointer)
      [] t = "time.Time" ->
            ParseStmt("apikit.NewTimeFromString", varName, "", fieldName,
                      isPointer)
      [] OTHER -> AssignStmt(fieldName, ValExpr(varName))

GenerateDefaultValue(fieldName, defaultValue, typeName) ==
    AssignStmt(fieldName, LitExpr(defaultValue, typeName = "string"))

\* if val := varName; val != "" { then } else { else }
IfNonEmpty(varName, thenStmt, elseStmt) ==
    [kind |-> "ifNonEmpty", var |-> varName, then |-> thenStmt,
     else |-> elseStmt]

\* Mutant: the default is assigned where the value does not parse.
GenerateExtractionCode_DefaultOnError(varName, fieldName, typeName, field, parsingCode, imports) ==
    LET defaultTag == GetDefaultTag(field)
        hasDefault == defaultTag # <<>>
        dflt == GenerateDefaultValue(fieldName, defaultTag, typeName)
        thenStmt == IF IsStringType(typeName)
                    THEN AssignStmt(fieldName, ValExpr("val"))
                    ELSE IF hasDefault /\ parsingCode.op = "parse"
                         THEN [parsingCode EXCEPT !.onError = dflt]
                         ELSE parsingCode
    IN [code |-> IfNonEmpty(varName, thenStmt,
                            IF hasDefault THEN dflt ELSE Nil),
        imports |-> imports]

\* GenerateExtractionCode: parsingCode is parsingFunc("val", fieldName).
GenerateExtractionCode(varName, fieldName, typeName, field, parsingCode, imports) ==
    LET defaultTag == GetDefaultTag(field)
        hasDefault == defaultTag # <<>>
        thenStmt == IF IsStringType(typeName)
                    THEN AssignStmt(fieldName, ValExpr("val"))
                    ELSE parsingCode
    IN [code |-> IfNonEmpty(varName, thenStmt,
                            IF hasDefault
                            THEN GenerateDefaultValue(fieldName, defaultTag,
                                                      typeName)
                            ELSE Nil),
        imports |-> imports]

NoCode == [code |-> Nil, imports |-> <<>>]

GenerateCodeByType(varName, fieldName, typeName, field) ==
    CASE IsStringType(typeName) ->
            GenerateExtractionCode(varName, fieldName, typeName, field, Nil,
                                   <<>>)
      [] IsIntType(typeName) ->
            GenerateExtractionCode(varName, fieldName, typeName, field,
                GenerateIntParsing("val", fieldName, typeName), <<"strconv">>)
      [] IsUintType(typeName) ->
            GenerateExtractionCode(varName, fieldName, typeName, field,
                GenerateUintParsing("val", fieldName, typeName), <<"strconv">>)
      [] IsFloatType(typeName) ->
            GenerateExtractionCode(varName, fieldName, typeName, field,
                GenerateFloatParsing("val", fieldName,
                    IF typeName = "float32" THEN "32" ELSE "64"),
                <<"strconv">>)
      [] IsBoolType(typeName) ->
            GenerateExtractionCode(varName, fieldName, typeName, field,
                GenerateBoolParsing("val", fieldName), <<"strconv">>)
      [] OTHER ->
            IF typeName \in RegisteredTypes \cup codecs
            THEN GenerateExtractionCode(varName, fieldName, typeName, field,
                     ParseFunc(typeName, "val", fieldName, field.IsPointer),
                     IF TypeImport(typeName) # ""
                     THEN <<TypeImport(typeName)>> ELSE <<>>)
            ELSE IF ~field.IsEmbedded
            THEN GenerateExtractionCode(varName, fieldName, typeName, field,
                     AssignStmt(fieldName, CastExpr(typeName, "val")), <<>>)
            ELSE NoCode

\* if vals := varName; len(vals) > 0 { ... }
IfLen(varName, fieldName, elementType, body) ==
    [kind |-> "ifLen", var |-> varName, dst |-> fieldName,
     elem |-> elementType, body |-> body]

\* for i, val := range vals { stmt } with the error of element i reported
\* as "invalid dst[i]" (indexed) or as the statement itself reports it.
Loop(stmt, indexed) == [op |-> "loop", stmt |-> stmt, indexed |-> indexed]

GenerateSliceCodeByType(varName, fieldName, elementType, field) ==
    CASE IsStringType(elementType) ->
            [code |-> IfLen(varName, fieldName, elementType,
                            AssignStmt(fieldName, ValExpr("vals"))),
             imports |-> <<>>]
      [] IsIntType(elementType) ->
            [code |-> IfLen(varName, fieldName, elementType,
                   Loop(ParseStmt("strconv.ParseInt", "val", elementType,
                                  fieldName, FALSE), TRUE)),
             imports |-> <<"strconv">>]
      [] IsUintType(elementType) ->
            [code |-> IfLen(varName, fieldName, elementType,
                   Loop(ParseStmt("strconv.ParseUint", "val", elementType,
                                  fieldName, FALSE), TRUE)),
             imports |-> <<"strconv">>]
      [] IsFloatType(elementType) ->
            [code |-> IfLen(varName, fieldName, elementType,
                   Loop(ParseStmt("strconv.ParseFloat", "val", elementType,
                                  fieldName, FALSE), TRUE)),
             imports |-> <<"strconv">>]
      [] IsBoolType(elementType) ->
            [code |-> IfLen(varName, fieldName, elementType,
                   Loop(ParseStmt("strconv.ParseBool", "val", "", fieldName,
                                  FALSE), TRUE)),
             imports |-> <<"strconv">>]
      [] OTHER ->
            IF elementType \in RegisteredTypes \cup codecs
            THEN [code |-> IfLen(varName, fieldName, elementType,
                       Loop(ParseFunc(elementType, "val", <<"parsed">>, FALSE),
                            FALSE)),
                  imports |-> IF TypeImport(elementType) # ""
                              THEN <<TypeImport(elementType)>> ELSE <<>>]
            ELSE [code |-> IfLen(varName, fieldName, elementType,
                                 AssignStmt(fieldName, ValExpr("vals"))),
                  imports |-> <<>>]

\* The accessor expression a classifier reads the raw value with.
Accessor(acc, name) == [acc |-> acc, name |-> name]

\* FormExtractor.generateFileCode
GenerateFileCode(field, formName) ==
    [kind |-> "file", multi |-> field.IsSlice, name |-> formName,
     dst |-> field.Name]

\* GenerateCode of each extractor.
GenerateCode(e, field) ==
    CASE e = "path" ->
            GenerateCodeByType(
                Accessor("r.PathValue", GetParameterName(field, "path")),
                field.Name, GetBaseType(field), field)
      [] e = "cookie" ->
            GenerateCodeByType(
                Accessor("apikit.GetCookie", GetParameterName(field, "cookie")),
                field.Name, GetBaseType(field), field)
      [] e = "query" ->
            IF field.IsSlice
            THEN GenerateSliceCodeByType(
                     Accessor("r.URL.Query()[]",
                              GetParameterName(field, "query")),
                     field.Name, field.SliceType, field)
            ELSE GenerateCodeByType(
                     Accessor("r.URL.Query().Get",
                              GetParameterName(field, "query")),
                     field.Name, GetBaseType(field), field)
      [] e = "header" ->
            IF field.IsSlice
            THEN GenerateSliceCodeByType(
                     Accessor("r.Header[]", GetParameterName(field, "header")),
                     field.Name, field.SliceType, field)
            ELSE GenerateCodeByType(
                     Accessor("r.Header.Get",
                              GetParameterName(field, "header")),
                     field.Name, GetBaseType(field), field)
      [] e = "form" ->
            LET formName == GetParameterName(field, "form")
            IN IF field.IsFile
               THEN [code |-> GenerateFileCode(field, formName),
                     imports |-> <<"mime/multipart">>]
               ELSE IF field.IsSlice
               THEN [code |-> IfLen(Accessor("r.Form[]", formName),
                                    field.Name, field.SliceType,
                                    AssignStmt(field.Name, ValExpr("vals"))),
                     imports |-> <<>>]
               ELSE GenerateCodeByType(Accessor("r.FormValue", formName),
                                       field.Name, field.Type, field)
      [] e \in {"body", "request", "response"} -> NoCode
      [] e = "mockAll" -> [code |-> [kind |-> "mock"], imports |-> <<>>]
      [] e = "mockNone" -> [code |-> [kind |-> "mock"], imports |-> <<>>]

----------------------------------------------------------------------------
(* Part 2: Generator.generateExtractionCode and the emitted code at run time *)

NoOutput == [lines |-> <<>>, imports |-> {}, fired |-> <<>>]

Emit(field, e) ==
    LET g == GenerateCode(e, field)
    IN [lines |-> IF g.code # Nil THEN <<g.code>> ELSE <<>>,
        imports |-> IF g.code # Nil THEN Range(g.imports) ELSE {},
        fired |-> <<[field |-> field, ext |-> e, code |-> g.code]>>]

Join(a, b) ==
    [lines |-> a.lines \o b.lines, imports |-> a.imports \cup b.imports,
     fired |-> a.fired \o b.fired]

\* Mutant: the scan goes on after the first extractor that accepts.
RECURSIVE ScanExtractors_NoBreak(_, _)
ScanExtractors_NoBreak(field, k) ==
    IF k > Len(GetExtractors) THEN NoOutput
    ELSE IF CanExtract(GetExtractors[k], field)
         THEN Join(Emit(field, GetExtractors[k]),
                   ScanExtractors_NoBreak(field, k + 1))
         ELSE ScanExtractors_NoBreak(field, k + 1)

\* The inner loop of generateExtractionCode: for _, ext := range allExtractors.
RECURSIVE ScanExtractors(_, _)
ScanExtractors(field, k) ==
    IF k > Len(GetExtractors) THEN NoOutput
    ELSE IF CanExtract(GetExtractors[k], field)
         THEN Emit(field, GetExtractors[k])
         ELSE ScanExtractors(field, k + 1)

\* The outer loop, from field i on; embedded structs are expanded in place.
RECURSIVE ScanFields(_, _)
ScanFields(s, i) ==
    IF i > Len(s.Fields) THEN NoOutput
    ELSE LET field == s.Fields[i]
             here == IF field.IsEmbedded
                     THEN IF field.NestedStruct # Nil
                          THEN ScanFields(field.NestedStruct, 1)
                          ELSE NoOutput
                     ELSE IF field.IsRawBody THEN NoOutput
                     ELSE ScanExtractors(field, 1)
         IN Join(here, ScanFields(s, i + 1))

generateExtractionCode(s) == ScanFields(s, 1)

\* Raw values a request can carry for a parameter ("" is also what the
\* accessors return for an absent parameter), and what each conversion of
\* the emitted code accepts.
RawValues == {"", "42", "-7", "1.5", "true", "abc", "2024-01-02"}

ParseOK(fn) ==
    CASE fn = "strconv.ParseInt" -> {"42", "-7"}
      [] fn = "strconv.ParseUint" -> {"42"}
      [] fn = "strconv.ParseFloat" -> {"42", "-7", "1.5"}
      [] fn = "strconv.ParseBool" -> {"true"}
      [] fn = "apikit.NewTimeFromString" -> {"2024-01-02"}
      [] OTHER -> {}

Unset == [err |-> FALSE, set |-> FALSE, value |-> <<>>]
Failed == [err |-> TRUE, set |-> FALSE, value |-> <<>>]
Assigned(v) == [err |-> FALSE, set |-> TRUE, value |-> v]

\* One statement of the emitted code, run with val bound to raw.
RECURSIVE ExecStmt(_, _)
ExecStmt(stmt, raw) ==
    IF stmt = Nil THEN Unset
    ELSE CASE stmt.op = "assign" ->
                (CASE stmt.expr.e = "lit" ->
                        Assigned(<<"lit", stmt.expr.text, stmt.expr.quoted>>)
                   [] stmt.expr.e = "var" -> Assigned(<<"str", raw>>)
                   [] stmt.expr.e = "cast" ->
                        Assigned(<<"cast", stmt.expr.type, raw>>)
                   [] stmt.expr.e = "addrOfCopy" -> Assigned(<<"ptr", raw>>))
           [] stmt.op = "parse" ->
                IF raw \in ParseOK(stmt.fn)
                THEN Assigned(<<"conv", stmt.fn, stmt.cast, raw>>)
                ELSE ExecStmt(stmt.onError, raw)
           [] stmt.op = "return" -> Failed

\* if val := <accessor>; val != "" { then } else { else }
Exec(code, raw) ==
    IF raw # "" THEN ExecStmt(code.then, raw) ELSE ExecStmt(code.else, raw)

\* if vals := <accessor>; len(vals) > 0 { body }, run on the values raws.
\* The body either assigns vals as it is, or converts the elements in a
\* loop; the loop returns at the first element that does not convert, with
\* an error that carries the (0-based) index when the loop is the indexed
\* one and the name the statement was given otherwise.  The loop emitted
\* for a registered codec appends the variable parsed, which the codec's
\* statement, assigning to payload.parsed, never sets.
ExecSlice(code, raws) ==
    IF raws = <<>> THEN Unset
    ELSE IF code.body.op = "assign" THEN Assigned(<<"strs", raws>>)
    ELSE LET stmt == code.body.stmt
             bad == {i \in DOMAIN raws : raws[i] \notin ParseOK(stmt.fn)}
             at == CHOOSE i \in bad : \A j \in bad : i <= j
         IN IF stmt.op # "parse" THEN Assigned(<<"zeros", Len(raws)>>)
            ELSE IF bad # {}
            THEN [err |-> TRUE, set |-> FALSE,
                  value |-> IF code.body.indexed THEN <<"index", at - 1>>
                            ELSE <<"name", stmt.dst>>]
            ELSE IF code.body.indexed
            THEN Assigned(<<"convs", stmt.fn, stmt.cast, raws>>)
            ELSE Assigned(<<"zeros", Len(raws)>>)

\* prepareHandlerData: what hasBodyFields, hasValidationTags and
\* hasMultipartFormFields find in the struct of the handler; each looks at
\* every field and, through embedded fields, at the fields of the nested
\* struct.
HandlerFlags(s) ==
    LET RECURSIVE All(_)
        All(t) ==
            IF t.Fields = <<>> THEN {}
            ELSE LET f == Head(t.Fields)
                 IN (IF f.IsEmbedded /\ f.NestedStruct # Nil
                     THEN All(f.NestedStruct) ELSE {})
                    \cup {f} \cup All([t EXCEPT !.Fields = Tail(t.Fields)])
        Has(f, key) == f.StructTag # <<>> /\ Lookup(f.StructTag, key).ok
    IN [HasBody |->
           \E f \in All(s) :
              \/ f.IsBody
              \/ Has(f, "json")
                    /\ Lookup(f.StructTag, "json").val = <<"b", "o", "d", "y">>,
        HasValidation |-> \E f \in All(s) : Has(f, "validate"),
        HasMultipartForm |->
           \E f \in All(s) :
              f.IsFile \/ Has(f, "form") \/ f.InComment = "form"]

----------------------------------------------------------------------------
(* Part 2: the request structs the classifier model is run on *)

Tag(key, val) == [key |-> key, val |-> val]

SourceKeys == {"path", "form", "query", "header", "cookie", "json"}
ValueSources == {"path", "form", "query", "header", "cookie"}

\* Tags with up to two source keys; a value is "x" or empty.
ClassTags ==
    {<<>>}
    \cup {<<Tag(k, v)>> : k \in SourceKeys, v \in {<<>>, <<"x">>}}
    \cup {<<Tag(p[1], <<"x">>), Tag(p[2], <<"z">>)>> :
              p \in {q \in SourceKeys \X SourceKeys : q[1] # q[2]}}

\* What extractInComment leaves in InComment and InCommentName.
InComments ==
    {[in |-> "", name |-> <<>>], [in |-> "query", name |-> <<>>],
     [in |-> "query", name |-> <<"y">>], [in |-> "header", name |-> <<"y">>],
     [in |-> "body", name |-> <<>>]}

MarkerFields ==
    {Field(n, "string", t, c.in, c.name) :
        n \in {Names.ID, Names.url}, t \in ClassTags, c \in InComments}

ScalarTypes == {"string", "int", "uint8", "float32", "float64", "bool",
                "time.Time", "Status", "*int", "*string"}

Defaults == {<<>>, <<Tag("default", <<"7">>)>>}

TypedFields ==
    {Field(Names.Age, ty, <<Tag(k, <<>>)>> \o d, "", <<>>) :
        ty \in ScalarTypes, k \in ValueSources, d \in Defaults}

\* Field declarations as written in the source: a scalar field Age with a
\* query tag, with or without a default tag, and with or without a
\* trailing comment 'default: 9'.
Declarations ==
    [name : {Names.Age}, type : {"int", "string"},
     tag : {<<Tag("query", <<>>)>> \o d : d \in Defaults},
     defaultFromComment : {<<>>, <<"9">>}]

\* parseField on a declaration: defaultFromComment is computed from the
\* comments and is not stored in the Field.
parseField(d) == Field(d.name, d.type, d.tag, "", <<>>)

SliceFields ==
    {Field(Names.ID, ty, <<Tag(k, <<>>)>>, "", <<>>) :
        ty \in SliceTypes, k \in {"query", "header", "form"}}

SpecialFields ==
    {Field(n, "*http.Request", t, "", <<>>) :
        n \in {Names.Request, Names.Req}, t \in {<<>>, <<Tag("query", <<>>)>>,
                                         <<Tag("form", <<>>)>>}}
    \cup {Field(n, "http.ResponseWriter", <<>>, "", <<>>) :
            n \in {Names.Response, Names.Res}}
    \cup {Field(n, "[]byte", t, "", <<>>) :
            n \in {Names.RawBody, Names.Raw}, t \in {<<>>, <<Tag("query", <<>>)>>}}
    \cup {Field(Names.File, ty, <<Tag("form", <<"x">>)>>, "", <<>>) :
            ty \in {"*multipart.FileHeader", "[]*multipart.FileHeader"}}

AllFields == MarkerFields \cup TypedFields \cup SliceFields \cup SpecialFields

Struct(name, fields) == [Name |-> name, Fields |-> fields]

\* Fields of different names that structs of several fields are built from.
PoolA == {Field(Names.ID, "string", t, "", <<>>) :
            t \in {<<>>, <<Tag("path", <<>>)>>,
                   <<Tag("path", <<"x">>), Tag("query", <<"z">>)>>}}
PoolB == {Field(Names.Age, "int", t, "", <<>>) :
            t \in {<<Tag("query", <<>>)>>, <<Tag("json", <<"x">>)>>,
                   <<Tag("header", <<>>), Tag("default", <<"7">>)>>}}
PoolC == {Field(Names.url, "string", <<Tag("cookie", <<>>)>>, "", <<>>),
          Field(Names.RawBody, "[]byte", <<>>, "", <<>>),
          Field(Names.Request, "*http.Request", <<>>, "", <<>>)}

\* (The last family of Structs below has a struct-typed field In, embedded
\* or not, whose struct has a struct-typed field, embedded or not, whose
\* struct has the field Age.)
\* The payload of the end-to-end example:
\* ID string `path:"id"`; Filter string `query:"filter"`;
\* Tags []string `query:"tags"`.
ExamplePayload ==
    Struct("S",
        <<Field(Names.ID, "string", <<Tag("path", <<"i", "d">>)>>, "", <<>>),
          Field(Names.Filter, "string",
                <<Tag("query", <<"f", "i", "l", "t", "e", "r">>)>>, "", <<>>),
          Field(Names.Tags, "[]string",
                <<Tag("query", <<"t", "a", "g", "s">>)>>, "", <<>>)>>)

Structs ==
    {Struct("S", <<f>>) : f \in AllFields}
    \cup {ExamplePayload}
    \cup {Struct("S", <<b, a>>) : a \in PoolA, b \in PoolB}
    \cup {Struct("S", <<c, Embedded(Names.In, "Inner", Struct("Inner", <<b>>)),
                        Field(Names.ID, "string", t, "", <<>>)>>) :
              b \in PoolB, c \in PoolC,
              t \in {<<Tag("form", <<>>)>>,
                     <<Tag("path", <<>>), Tag("validate", <<"x">>)>>,
                     <<Tag("json", <<"b", "o", "d", "y">>)>>}}
    \cup {Struct("S", <<a, b>>) : a \in PoolA, b \in PoolB}
    \cup {Struct("S", <<a, Embedded(Names.In, "Inner",
                                    Struct("Inner", <<b>>)), c>>) :
              a \in PoolA, b \in PoolB, c \in PoolC}
    \cup {Struct("S", <<Embedded(Names.In, "Inner", Nil), c>>) :
              c \in PoolC}
    \cup {Struct("S",
              <<[Embedded(Names.In, "Inner",
                    Struct("Inner",
                       <<[Embedded(Names.Filter, "Deep",
                             Struct("Deep",
                                <<Field(Names.Age, "int", t, "", <<>>)>>))
                            EXCEPT !.IsEmbedded = e2]>>))
                  EXCEPT !.IsEmbedded = e1]>>) :
              e1 \in BOOLEAN, e2 \in BOOLEAN,
              t \in {<<Tag("query", <<>>)>>,
                     <<Tag("query", <<>>), Tag("validate", <<"x">>)>>}}

\* Generator.generateExtractionCode on the request struct of a handler; the
\* init functions of package extractors have registered the builtins.  One
\* struct is followed per registry; what is emitted for a struct does not
\* depend on the structs generated before it.
GenerateFor(s) ==
    /\ Builtins \subseteq Range(extractors)
    /\ cur = <<>>
    /\ cur' = s
    /\ lines' = generateExtractionCode(s).lines
    /\ fired' = generateExtractionCode(s).fired
    /\ outcome' = <<>>
    /\ multi' = <<>>
    /\ UNCHANGED <<extractors, codecs, gateVars, resolveVars, restVars>>

\* The handler wrapper runs fragment i on a request whose parameter is raw.
RunEmitted(i, raw) ==
    /\ i \in DOMAIN lines
    /\ lines[i].kind = "ifNonEmpty"
    /\ outcome' = [frag |-> i, raw |-> raw, res |-> Exec(lines[i], raw)]
    /\ UNCHANGED <<extractors, cur, lines, fired, multi, codecs>>
    /\ UNCHANGED <<gateVars, resolveVars, restVars>>

\* The wrapper runs slice fragment i on a request that carries the values
\* raws for the parameter.
RunEmittedSlice(i, raws) ==
    /\ i \in DOMAIN lines
    /\ lines[i].kind = "ifLen"
    /\ multi' = [frag |-> i, raws |-> raws, res |-> ExecSlice(lines[i], raws)]
    /\ UNCHANGED <<extractors, cur, lines, fired, outcome, codecs>>
    /\ UNCHANGED <<gateVars, resolveVars, restVars>>

----------------------------------------------------------------------------
(* Part 1: the regeneration gate *)

Files == 1..MaxFiles

\* What the parser and the generator make of a source text.
Kinds == {"handlers", "nohandlers", "unparsable"}

Contents == [id : 1..MaxVer, kind : Kinds]

NoFile == <<"nofile">>

NoChecksum == <<>>          \* the empty string returned for "no checksum"

ScanLimit == 10

\* The lines of an artifact.
BannerLine == [kind |-> "banner"]                    \* contains "DO NOT EDIT"
CodeLine(c) == [kind |-> "code", of |-> c]
ChecksumLine(h) == [kind |-> "checksum", hex |-> h]  \* // apikit:checksum:<hex>
OtherLine == [kind |-> "other"]

\* sha256 of the file content, as lower-case hex: collision free.
CalculateFileChecksum(c) == <<"sha256", c.id, c.kind>>

\* The first index in 1..n of lines satisfying P, or 0.
RECURSIVE FirstFrom(_, _, _, _)
FirstFrom(text, i, n, k) ==
    IF i > n THEN 0
    ELSE IF text[i].kind = k THEN i
    ELSE FirstFrom(text, i + 1, n, k)

Min(a, b) == IF a < b THEN a ELSE b

\* Mutant: only the first line is inspected.
ExtractChecksum_FirstLineOnly(a) ==
    IF a = NoFile THEN NoChecksum
    ELSE LET n == Min(Len(a), 1)
             i == FirstFrom(a, 1, n, "checksum")
         IN IF i = 0 THEN NoChecksum ELSE a[i].hex

ExtractChecksum(a) ==
    IF a = NoFile THEN NoChecksum
    ELSE LET n == Min(Len(a), ScanLimit)
             i == FirstFrom(a, 1, n, "checksum")
         IN IF i = 0 THEN NoChecksum ELSE a[i].hex

\* Mutant: a missing stored checksum is taken as "unchanged".
HasSourceChanged_MissingIsUnchanged(c, a) ==
    LET currentChecksum == CalculateFileChecksum(c)
        storedChecksum == ExtractChecksum(a)
    IN IF storedChecksum = NoChecksum THEN FALSE
       ELSE currentChecksum # storedChecksum

HasSourceChanged(c, a) ==
    LET currentChecksum == CalculateFileChecksum(c)
        storedChecksum == ExtractChecksum(a)
    IN IF storedChecksum = NoChecksum THEN TRUE
       ELSE currentChecksum # storedChecksum

\* Mutant: the checksum comment is appended after the last line of a
\* content padded beyond the lines ExtractChecksum scans.
AddChecksumToGenerated_AtEnd(content, sourceChecksum) ==
    content \o [i \in 1..ScanLimit |-> OtherLine]
        \o <<ChecksumLine(sourceChecksum)>>

AddChecksumToGenerated(content, sourceChecksum) ==
    LET i == FirstFrom(content, 1, Len(content), "banner")
    IN IF i # 0
       THEN SubSeq(content, 1, i) \o <<ChecksumLine(sourceChecksum)>>
                \o SubSeq(content, i + 1, Len(content))
       ELSE <<ChecksumLine(sourceChecksum)>> \o content

\* The rendered template (templates/handler.tmpl): the banner line first,
\* then the code synthesized from the parse result.
Generate(c) == <<BannerLine, CodeLine(c)>>

\* strings.TrimSuffix(sourceFilePath, ".go") + "_apikit.go", or --output.
OutShared == 0
OutPaths == Files \cup {OutShared}
Output(f, fl) == IF fl.outputFile THEN OutShared ELSE f

NoProv == <<"none">>

Idle == [file |-> 0]

\* The flags and environment a run of `apikit generate` can be started with.
EnvValues == {"", "0"}               \* APIKIT_FORCE unset, or set to a value
FlagSets == [force : BOOLEAN, env : EnvValues, dryRun : BOOLEAN,
             outputFile : BOOLEAN]
NoFlags == [force |-> FALSE, env |-> "", dryRun |-> FALSE,
            outputFile |-> FALSE]

\* The file lists a run can be given: one file, or both in either order.
FileLists == {<<f>> : f \in Files}
                 \cup {<<f, g>> : <<f, g>> \in {p \in Files \X Files : p[1] # p[2]}}

\* runGenerate, lines 57-62: the override is the flag or a non-empty
\* APIKIT_FORCE.
\* Mutant: the environment variable is ignored.
ForceOf_FlagOnly(fl) == fl.force

ForceOf(fl) == fl.force \/ fl.env # ""

\* What generateWithParser does for file f in the current state, as a record:
\* the steps it performs and the artifact it leaves at the output path.
\* rest is what the range loop of runGenerate has after f.
GenerateWithParserResult(f) ==
    LET c == src[f]
        out == Output(f, flags)
        a == art[out]
        consulted == ~force
        skipped == consulted /\ ~HasSourceChanged(c, a)
        parsed == ~skipped
        failed == parsed /\ c.kind = "unparsable"
        synthesized == parsed /\ c.kind = "handlers"
        code == AddChecksumToGenerated(Generate(c), CalculateFileChecksum(c))
        wrote == synthesized /\ ~flags.dryRun
    IN [file |-> f, out |-> out, source |-> c, prior |-> a,
        priorProv |-> prov[out], force |-> force, dryRun |-> flags.dryRun,
        consulted |-> consulted, skipped |-> skipped, parsed |-> parsed,
        failed |-> failed, synthesized |-> synthesized, wrote |-> wrote,
        after |-> IF wrote THEN code ELSE a, rest |-> Tail(queue)]

GateInit ==
    /\ src \in [Files -> Contents]
    /\ art = [o \in OutPaths |-> NoFile]
    /\ prov = [o \in OutPaths |-> NoProv]
    /\ flags = NoFlags
    /\ force = FALSE
    /\ queue = <<>>
    /\ pc = "idle"
    /\ last = Idle

\* A new process: runGenerate up to the loop over resolvedFiles.
StartRun(fl, files) ==
    /\ pc = "idle"
    /\ flags' = fl
    /\ force' = ForceOf(fl)
    /\ queue' = files
    /\ pc' = "running"
    /\ last' = Idle
    /\ UNCHANGED <<src, art, prov>>
    /\ UNCHANGED <<extractVars, resolveVars, restVars>>

\* One iteration of the loop of runGenerate: generateWithParser on the next
\* file; an error ends the loop.
ProcessFile ==
    /\ pc = "running"
    /\ queue # <<>>
    /\ LET r == GenerateWithParserResult(Head(queue))
       IN /\ last' = r
          /\ art' = [art EXCEPT ![r.out] = r.after]
          /\ prov' = IF r.wrote
                     THEN [prov EXCEPT ![r.out] = <<r.file, r.source>>]
                     ELSE prov
          /\ queue' = IF r.failed THEN <<>> ELSE Tail(queue)
    /\ UNCHANGED <<src, flags, force, pc>>
    /\ UNCHANGED <<extractVars, resolveVars, restVars>>

\* runGenerate returns and the process exits: its variables are gone.
EndRun ==
    /\ pc = "running"
    /\ queue = <<>>
    /\ pc' = "idle"
    /\ flags' = NoFlags
    /\ force' = FALSE
    /\ last' = Idle
    /\ UNCHANGED <<src, art, prov, queue>>
    /\ UNCHANGED <<extractVars, resolveVars, restVars>>

\* The environment, between runs: the user edits a source file, ...
EditSource(f, c) ==
    /\ pc = "idle"
    /\ c # src[f]
    /\ src' = [src EXCEPT ![f] = c]
    /\ UNCHANGED <<art, prov, flags, force, queue, pc, last>>
    /\ UNCHANGED <<extractVars, resolveVars, restVars>>

\* ... deletes an artifact, ...
RemoveArtifact(o) ==
    /\ pc = "idle"
    /\ art[o] # NoFile
    /\ art' = [art EXCEPT ![o] = NoFile]
    /\ prov' = [prov EXCEPT ![o] = NoProv]
    /\ UNCHANGED <<src, flags, force, queue, pc, last>>
    /\ UNCHANGED <<extractVars, resolveVars, restVars>>

\* ... or leaves a file without a checksum marker at the output path.
PlaceUnmarkedArtifact(o) ==
    /\ pc = "idle"
    /\ art[o] # <<BannerLine, OtherLine>>
    /\ art' = [art EXCEPT ![o] = <<BannerLine, OtherLine>>]
    /\ prov' = [prov EXCEPT ![o] = NoProv]
    /\ UNCHANGED <<src, flags, force, queue, pc, last>>
    /\ UNCHANGED <<extractVars, resolveVars, restVars>>

GateNext ==
    \/ \E fl \in FlagSets, files \in FileLists : StartRun(fl, files)
    \/ ProcessFile
    \/ EndRun
    \/ \E f \in Files, c \in Contents : EditSource(f, c)
    \/ \E o \in OutPaths : RemoveArtifact(o)
    \/ \E o \in OutPaths : PlaceUnmarkedArtifact(o)

Init == GateInit /\ ExtractIdle /\ ResolveIdle /\ HandlerIdle /\ CacheIdle

Next == GateNext

Spec == Init /\ [][Next]_vars

\* The classifier model on its own: no generate run is in progress.
GateQuiet ==
    /\ GateInit
    /\ src = [f \in Files |-> [id |-> 1, kind |-> "handlers"]]

ExtractInit ==
    GateQuiet /\ ExtractIdle /\ ResolveIdle /\ HandlerIdle /\ CacheIdle

\* types.Register at run time: a codec for a type of the user, or one that
\* replaces the built-in codec of int.
CodecNames == {"int", "Status"}

\* Registry.Register: r.extractors[e.TypeName] = e.
RegisterType(t) ==
    /\ t \notin codecs
    /\ codecs' = codecs \cup {t}
    /\ cur' = <<>>
    /\ lines' = <<>>
    /\ fired' = <<>>
    /\ outcome' = <<>>
    /\ multi' = <<>>
    /\ UNCHANGED <<extractors, gateVars, resolveVars, restVars>>

\* The classifiers as the init functions of package extractors leave them,
\* and the registry of codecs as NewRegistry leaves it.
CodecInit ==
    /\ GateQuiet
    /\ ResolveIdle
    /\ HandlerIdle
    /\ CacheIdle
    /\ extractors \in SortFunc(Builtins)
    /\ cur = <<>>
    /\ lines = <<>>
    /\ fired = <<>>
    /\ outcome = <<>>
    /\ multi = <<>>
    /\ codecs = {}

\* Code is generated for structs of one scalar field.
CodecNext ==
    \/ \E t \in CodecNames : RegisterType(t)
    \/ \E f \in TypedFields : GenerateFor(Struct("S", <<f>>))

SpecCodecs == CodecInit /\ [][CodecNext]_vars

ExtractNext ==
    \/ \E e \in ExtractorNames : Register(e)
    \/ \E s \in Structs : GenerateFor(s)
    \/ \E i \in 1..3, raw \in RawValues : RunEmitted(i, raw)
    \/ \E i \in 1..3, n \in 0..MaxVals :
          \E raws \in [1..n -> RawValues] : RunEmittedSlice(i, raws)

SpecExtract == ExtractInit /\ [][ExtractNext]_vars

----------------------------------------------------------------------------
(* Part 3: Parser.ParseFile and the resolution of nested structs *)

MaxDepth == 6        \* calls of resolveNestedStructsRecursive on the stack

Aliases == {"p", "q"}
NoImports == [a \in Aliases |-> ""]

\* parseField: a field as declared.  wrap is the text in front of the type
\* name ("", "*", "[]" or "[]*"); alias is the package qualifier, if any; ns is
\* NestedStruct, an address in the heap (0: nil).
FieldDecl(name, wrap, alias, type, embedded) ==
    [Name |-> name, wrap |-> wrap, alias |-> alias, type |-> type,
     IsEmbedded |-> embedded, ns |-> 0]

\* parseStruct
StructDecl(name, fields) == [Name |-> name, Fields |-> fields]

\* The packages that can be loaded: each one file, with its import table.
\* Q1 and Q2 are two packages whose default alias is q; so is Q3, which has
\* no struct W.
Packages ==
    [P1 |-> [imports |-> [NoImports EXCEPT !["q"] = "Q1"],
             decls |-> <<StructDecl("Z",
                            <<FieldDecl("W", "", "q", "W", TRUE),
                              FieldDecl("Next", "*", "", "Z", FALSE),
                              FieldDecl("Peer", "", "", "B", FALSE)>>),
                         StructDecl("B",
                            <<FieldDecl("Back", "*", "", "Z", FALSE)>>)>>],
     Q1 |-> [imports |-> NoImports,
             decls |-> <<StructDecl("W",
                            <<FieldDecl("F1", "", "", "int", FALSE)>>)>>],
     Q2 |-> [imports |-> NoImports,
             decls |-> <<StructDecl("W",
                            <<FieldDecl("F2", "", "", "int", FALSE)>>)>>],
     Q3 |-> [imports |-> NoImports,
             decls |-> <<StructDecl("V",
                            <<FieldDecl("F3", "", "", "int", FALSE)>>)>>]]

\* The fields the structs A and B of the parsed file are declared with.
LocalPool ==
    <<FieldDecl("X1", "", "", "A", FALSE),
      FieldDecl("X2", "*", "", "A", FALSE),
      FieldDecl("X3", "[]", "", "A", FALSE),
      FieldDecl("X4", "[]*", "", "A", FALSE),
      FieldDecl("Y", "", "", "B", FALSE),
      FieldDecl("Z", "", "p", "Z", TRUE),
      FieldDecl("W", "", "q", "W", TRUE),
      FieldDecl("N", "", "", "int", FALSE),
      FieldDecl("Y2", "*", "", "B", FALSE)>>

FieldLists ==
    {<<LocalPool[i]>> : i \in DOMAIN LocalPool}
    \cup {<<LocalPool[c[1]], LocalPool[c[2]]>> :
            c \in {d \in (DOMAIN LocalPool) \X (DOMAIN LocalPool) : d[1] < d[2]}}

\* The parsed file: its import table (p is P1; q is not in the table, or
\* is Q1, Q2, Q3 or Q0, a package that does not load) and its structs A
\* and B.
Worlds ==
    [imports : {[NoImports EXCEPT !["p"] = "P1", !["q"] = x] :
                   x \in {"", "Q0", "Q1", "Q2", "Q3"}},
     A : FieldLists, B : FieldLists]

\* The import table in force: that of the parsed file, or that of the file
\* an external struct was found in.
ImportsOf(ctx) ==
    IF ctx = "local" THEN world.imports ELSE Packages[ctx].imports

\* typeName, the key of Parser.structs and of visited: the type text with a
\* leading "*" of a pointer or the "[]" of a slice taken off; what is left of
\* "[]*T" is "*T".
TypeKey(field) ==
    <<IF field.wrap = "[]*" THEN "*" ELSE "", field.alias, field.type>>

NameKey(name) == <<"", "", name>>

\* loadExternalStruct and findStructInPackage: the struct as parsed, or none.
loadExternalStruct(importPath, structName) ==
    IF importPath \notin DOMAIN Packages THEN <<>>
    ELSE SelectSeq(Packages[importPath].decls,
                   LAMBDA d : d.Name = structName)

\* Mutant: nothing is ever marked as visited.
Mark_Never(v, name) == v

\* visited[s.Name] = true
Mark(v, name) == v \cup {NameKey(name)}

\* Mutant: the cached struct itself is attached.
Attach_Alias(h, from, fields) == [heap |-> h, id |-> from]

\* field.NestedStruct = &Struct{Name: ..., Fields: ...}: a new object with
\* the name of the struct at address from and a copy of the field list.
Attach(h, from, fields) ==
    [heap |-> Append(h, [Name |-> h[from].Name, Fields |-> fields]),
     id |-> Len(h) + 1]

\* ParseFile, first pass: every struct of the file is parsed and stored in
\* the result and in the parser's cache, over what the cache holds under
\* the same name.
CollectStructs ==
    /\ rpc = "idle"
    /\ heap' = heap \o <<StructDecl("A", world.A), StructDecl("B", world.B)>>
    /\ result' = [n \in {"A", "B"} |->
                     IF n = "A" THEN Len(heap) + 1 ELSE Len(heap) + 2]
    /\ structs' = [k \in {NameKey("A"), NameKey("B")} |->
                      IF k = NameKey("A") THEN Len(heap) + 1
                      ELSE Len(heap) + 2] @@ structs
    /\ todo' = {"A", "B"}
    /\ rpc' = "roots"
    /\ UNCHANGED <<world, visited, stack, run, first, gateVars, extractVars, restVars>>

\* for _, s := range result.Structs, in the order the map gives: the call of
\* resolveNestedStructsRecursive on a root, up to the loop over its fields.
ResolveRoot(r) ==
    /\ rpc = "roots"
    /\ r \in todo
    /\ todo' = todo \ {r}
    /\ visited' = Mark({}, heap[result[r]].Name)
    /\ stack' = <<[obj |-> result[r], i |-> 1, imp |-> "local"]>>
    /\ rpc' = "resolving"
    /\ UNCHANGED <<world, heap, structs, result, run, first, gateVars,
                   extractVars, restVars>>

\* One turn of the loop of the innermost call: the field is resolved from
\* the cache or from its package, and the call on the copy is entered; past
\* the last field the call returns.  No field of the model is a raw body,
\* a response writer or a request (those are skipped), and PackagePath,
\* which the loop also sets, is left out.
ResolveField ==
    /\ rpc = "resolving"
    /\ LET fr == stack[Len(stack)]
           s == heap[fr.obj]
       IN IF fr.i > Len(s.Fields)
          THEN /\ stack' = SubSeq(stack, 1, Len(stack) - 1)
               /\ rpc' = IF Len(stack) = 1 THEN "roots" ELSE "resolving"
               /\ UNCHANGED <<heap, structs, visited>>
          ELSE LET field == s.Fields[fr.i]
                   key == TypeKey(field)
                   cached == key \in DOMAIN structs
                   path == IF field.alias # "" /\ field.wrap # "[]*"
                           THEN ImportsOf(fr.imp)[field.alias] ELSE ""
                   loaded == IF ~cached /\ path # ""
                             THEN loadExternalStruct(path, field.type)
                             ELSE <<>>
                   h1 == IF loaded # <<>> THEN Append(heap, loaded[1])
                         ELSE heap
                   from == IF cached THEN structs[key] ELSE Len(h1)
                   cycle == key \in visited
                   a == Attach(h1, from,
                               IF cycle THEN <<>> ELSE h1[from].Fields)
                   next == [stack EXCEPT ![Len(stack)].i = fr.i + 1]
                   name == h1[from].Name
               IN IF ~cached /\ loaded = <<>>
                  THEN /\ stack' = next
                       /\ UNCHANGED <<heap, structs, visited, rpc>>
                  ELSE /\ heap' = [a.heap EXCEPT
                                     ![fr.obj].Fields[fr.i].ns = a.id]
                       /\ structs' = IF cached THEN structs
                                     ELSE (key :> from) @@ structs
                       /\ IF cycle \/ NameKey(name) \in visited
                          THEN /\ stack' = next
                               /\ UNCHANGED <<visited, rpc>>
                          ELSE IF Len(stack) >= MaxDepth
                          THEN /\ rpc' = "overflow"
                               /\ UNCHANGED <<stack, visited>>
                          ELSE /\ visited' = Mark(visited, name)
                               /\ stack' = Append(next,
                                    [obj |-> a.id, i |-> 1,
                                     imp |-> IF cached THEN fr.imp ELSE path])
                               /\ rpc' = "resolving"
    /\ UNCHANGED <<world, result, todo, run, first, gateVars, extractVars, restVars>>

\* What generateExtractionCode walks of a resolved struct: its fields in
\* order, with embedded fields replaced by the fields of their NestedStruct.
RECURSIVE Expand(_, _)
Expand(h, id) ==
    LET RECURSIVE From(_)
        From(i) ==
            IF i > Len(h[id].Fields) THEN <<>>
            ELSE LET f == h[id].Fields[i]
                 IN (IF f.IsEmbedded
                     THEN IF f.ns # 0 THEN Expand(h, f.ns) ELSE <<>>
                     ELSE <<<<f.Name, f.wrap, f.alias, f.type>>>>)
                    \o From(i + 1)
    IN From(1)

\* The artifact is synthesized from the structs of the result.
Artifact == [n \in DOMAIN result |-> Expand(heap, result[n])]

\* ParseFile returns; a second process then parses the same file again.
FinishParse ==
    /\ rpc = "roots"
    /\ todo = {}
    /\ rpc' = "done"
    /\ UNCHANGED <<world, heap, structs, result, todo, visited, stack, run,
                   first, gateVars, extractVars, restVars>>

RunAgain ==
    /\ rpc = "done"
    /\ run = 1
    /\ first' = Artifact
    /\ run' = 2
    /\ heap' = <<>>
    /\ structs' = <<>>
    /\ result' = <<>>
    /\ visited' = {}
    /\ rpc' = "idle"
    /\ UNCHANGED <<world, todo, stack, gateVars, extractVars, restVars>>

ResolveInit ==
    /\ GateQuiet
    /\ ExtractIdle
    /\ HandlerIdle
    /\ CacheIdle
    /\ world \in Worlds
    /\ heap = <<>>
    /\ structs = <<>>
    /\ result = <<>>
    /\ todo = {}
    /\ visited = {}
    /\ stack = <<>>
    /\ rpc = "idle"
    /\ run = 1
    /\ first = <<>>

ResolveNext ==
    \/ CollectStructs
    \/ \E r \in {"A", "B"} : ResolveRoot(r)
    \/ ResolveField
    \/ FinishParse
    \/ RunAgain

\* Every step is a step of a running process: it is taken.
SpecResolve ==
    ResolveInit /\ [][ResolveNext]_vars /\ WF_vars(ResolveNext)

\* The files of a batch: structs of one field each, and an import table
\* in which q is a package that provides W or one that does not load.
BatchWorlds ==
    {w \in Worlds :
        /\ w.imports["q"] \in {"Q0", "Q1", "Q2"}
        /\ \A n \in {"A", "B"} :
              Len(w[n]) = 1 /\ w[n][1].Name \in {"X1", "Y", "W", "N"}}

\* runGenerate: ParseFile has returned for a file of the batch, and the
\* loop goes on to the next file with the same parser: its cache stays.
NextFile(w) ==
    /\ rpc = "done"
    /\ run = 0
    /\ world' = w
    /\ result' = <<>>
    /\ run' = 1
    /\ rpc' = "idle"
    /\ UNCHANGED <<heap, structs, todo, visited, stack, first, gateVars,
                   extractVars, restVars>>

\* A batch of two files; then a new process parses the second file alone.
BatchInit ==
    /\ GateQuiet
    /\ ExtractIdle
    /\ HandlerIdle
    /\ CacheIdle
    /\ world \in BatchWorlds
    /\ heap = <<>>
    /\ structs = <<>>
    /\ result = <<>>
    /\ todo = {}
    /\ visited = {}
    /\ stack = <<>>
    /\ rpc = "idle"
    /\ run = 0
    /\ first = <<>>

BatchNext ==
    \/ CollectStructs
    \/ \E r \in {"A", "B"} : ResolveRoot(r)
    \/ ResolveField
    \/ FinishParse
    \/ \E w \in BatchWorlds : NextFile(w)
    \/ RunAgain

SpecBatch == BatchInit /\ [][BatchNext]_vars

----------------------------------------------------------------------------
(* Part 4: the second pass of Parser.ParseFile, which finds the handlers *)

\* The function declarations a file may hold.  As in go/ast, a parameter or
\* result list is a list of fields, and a field declares `names` identifiers
\* of one type: `a, b T` is one field of two names.  Types are the strings
\* typeToString gives.  An unmarked function has no apikit:handler comment.
FuncDecls ==
    LET F(n, t) == [names |-> n, type |-> t]
        PT == {"context.Context", "T", "http.ResponseWriter", "*http.Request"}
        Grouped(S) == {F(n, t) : n \in 1..2, t \in S}
        Single(S) == {F(1, t) : t \in S}
        Params ==
            UNION {[1..n -> Grouped(PT)] : n \in 0..2}
            \cup [1..3 -> Single(PT)]
            \cup {<<a, F(1, "T"), c, d>> : a, c, d \in Single(PT)}
            \cup {<<F(1, "context.Context"), F(1, "T"), F(2, t)>> :
                     t \in {"http.ResponseWriter", "*http.Request"}}
            \cup {[i \in 1..5 |->
                     F(1, IF i = 1 THEN "context.Context"
                          ELSE IF i = 2 THEN "T" ELSE "*http.Request")]}
        Results ==
            UNION {[1..n -> Single({"R", "error"})] : n \in 0..2}
            \cup {<<F(2, "error")>>, <<F(2, "R"), F(1, "error")>>,
                  <<F(1, "R"), F(2, "error")>>,
                  <<F(1, "R"), F(1, "error"), F(1, "error")>>}
    IN {[marked |-> TRUE, Params |-> ps, Results |-> rs] :
           ps \in Params, rs \in Results}
       \cup {[marked |-> FALSE, Params |-> ps, Results |-> <<>>] :
                ps \in {<<>>, <<F(1, "T")>>}}
       \cup {[marked |-> FALSE,
              Params |-> <<F(1, "context.Context"), F(1, "T")>>,
              Results |-> <<F(1, "R"), F(1, "error")>>]}

\* Parser.isValidHandlerSignature, on the field lists of the declaration.
isValidHandlerSignature(fn) ==
    LET params == fn.Params
        results == fn.Results
    IN /\ Len(params) >= 2
       /\ Len(params) <= 4
       /\ params[1].type = "context.Context"
       /\ \A i \in 3..Len(params) :
             params[i].type \in {"http.ResponseWriter", "*http.Request"}
       /\ Len(results) = 2
       /\ results[2].type = "error"

\* Parser.parseHandler on the function called `name`; res holds the Handlers
\* and Warnings of the result so far.  A handler is what ParseFile appends
\* when parseHandler returns one; the receiver and the struct looked up for
\* the payload type are left out.
parseHandler_SilentReject(fn, name, res) ==
    IF ~fn.marked \/ ~isValidHandlerSignature(fn) THEN res
    ELSE [res EXCEPT !.Handlers = Append(@,
            [Name |-> name, ParamType |-> fn.Params[2].type,
             HasResponseWriter |-> FALSE, HasRequest |-> FALSE,
             ReturnType |-> fn.Results[1].type])]

parseHandler(fn, name, res) ==
    IF ~fn.marked THEN res
    ELSE IF ~isValidHandlerSignature(fn)
    THEN [res EXCEPT !.Warnings = Append(@, name)]
    ELSE IF Len(fn.Params) < 2
    THEN [res EXCEPT !.Warnings = Append(@, name)]
    ELSE LET params == fn.Params
             extra == {params[i].type : i \in 3..Len(params)}
             h == [Name |-> name,
                   ParamType |-> params[2].type,
                   HasResponseWriter |-> "http.ResponseWriter" \in extra,
                   HasRequest |-> "*http.Request" \in extra,
                   ReturnType |-> fn.Results[1].type]
         IN IF Len(fn.Results) < 1
            THEN [res EXCEPT !.Warnings = Append(@, name)]
            ELSE [res EXCEPT !.Handlers = Append(@, h)]

\* ParseFile up to its second pass: go/parser either rejects the file, and
\* ParseFile returns the error, or gives the n function declarations of the
\* file.  (The first pass and the resolution of structs are Part 3.)
BeginParse(n, ok) ==
    /\ hpc = "idle"
    /\ hpc' = IF ok THEN "scanning" ELSE "error"
    /\ nfuncs' = IF ok THEN n ELSE 0
    /\ UNCHANGED <<decl, marks, Handlers, Warnings, data>>
    /\ UNCHANGED <<gateVars, extractVars, resolveVars, cacheVars>>

\* The callback of the second ast.Inspect on the next FuncDecl, in source
\* order; functions are named by their position.  It returns true always.
InspectFunc(fn) ==
    /\ hpc = "scanning"
    /\ Len(marks) < nfuncs
    /\ LET r == parseHandler(fn, Len(marks) + 1,
                             [Handlers |-> Handlers, Warnings |-> Warnings])
       IN /\ Handlers' = r.Handlers
          /\ Warnings' = r.Warnings
    /\ decl' = fn
    /\ marks' = Append(marks, fn.marked)
    /\ UNCHANGED <<hpc, nfuncs, data>>
    /\ UNCHANGED <<gateVars, extractVars, resolveVars, cacheVars>>

\* return result, nil
ReturnResult ==
    /\ hpc = "scanning"
    /\ Len(marks) = nfuncs
    /\ hpc' = "done"
    /\ UNCHANGED <<nfuncs, decl, marks, Handlers, Warnings, data>>
    /\ UNCHANGED <<gateVars, extractVars, resolveVars, cacheVars>>

\* Every part of the model before its first step.
AllIdle ==
    GateQuiet /\ ExtractIdle /\ ResolveIdle /\ HandlerIdle /\ CacheIdle

HandlerNext ==
    \/ \E n \in 0..MaxFuncs, ok \in BOOLEAN : BeginParse(n, ok)
    \/ \E fn \in FuncDecls : InspectFunc(fn)
    \/ ReturnResult

SpecHandlers == AllIdle /\ [][HandlerNext]_vars

\* The names of the generated functions.  A handler name is the sequence of
\* its runes; the fixed prefix and suffixes are one element each.

ToUpper(ch) ==
    IF \E i \in DOMAIN LowerCase : LowerCase[i] = ch
    THEN UpperCase[CHOOSE i \in DOMAIN LowerCase : LowerCase[i] = ch]
    ELSE ch

\* toCamelCasePrivate: the first rune in lower case.
toCamelCasePrivate(s) ==
    IF s = <<>> THEN s ELSE <<ToLower(s[1])>> \o Tail(s)

\* capitalize: the first rune in upper case.
capitalize(s) ==
    IF s = <<>> THEN s ELSE <<ToUpper(s[1])>> \o Tail(s)

\* Generator.prepareHandlerData, as far as the names go: the receiver of the
\* handler has no part in them.
prepareHandlerData(handler) ==
    [Name |-> handler.Name,
     WrapperName |-> toCamelCasePrivate(handler.Name) \o <<"APIKit">>,
     ParseFuncName |-> <<"parse">> \o capitalize(handler.Name)
                          \o <<"Request">>]

\* The handlers ParseFile accepts from a file that compiles: Name is
\* fn.Name.Name and Receiver the type of the receiver, empty for a plain
\* function.  A package declares a function name once and a method name
\* once per receiver type.
FuncNames == {<<"G", "e", "t">>, <<"g", "e", "t">>, <<"P", "u", "t">>}

AcceptedHandlers ==
    LET H == [Name : FuncNames, Receiver : {"", "*A", "*B"}]
    IN {hs \in UNION {[1..n -> H] : n \in 0..MaxFuncs} :
           \A i, j \in DOMAIN hs : hs[i] = hs[j] => i = j}

\* One turn of the loop of prepareTemplateData over result.Handlers.
PrepareHandler ==
    /\ hpc = "done"
    /\ Len(data) < Len(Handlers)
    /\ data' = Append(data, prepareHandlerData(Handlers[Len(data) + 1]))
    /\ UNCHANGED <<hpc, nfuncs, decl, marks, Handlers, Warnings>>
    /\ UNCHANGED <<gateVars, extractVars, resolveVars, cacheVars>>

\* ParseFile has returned the handlers of a file; prepareTemplateData begins.
NamesInit ==
    /\ GateQuiet /\ ExtractIdle /\ ResolveIdle /\ CacheIdle
    /\ hpc = "done"
    /\ Handlers \in AcceptedHandlers
    /\ nfuncs = Len(Handlers)
    /\ decl = [marked |-> FALSE, Params |-> <<>>, Results |-> <<>>]
    /\ marks = [i \in DOMAIN Handlers |-> TRUE]
    /\ Warnings = <<>>
    /\ data = <<>>

NamesNext == PrepareHandler

SpecNames == NamesInit /\ [][NamesNext]_vars

----------------------------------------------------------------------------
(* Part 5: core/ast.CachedParser, shared by concurrent goroutines *)

\* Every step below is one statement of a method of CachedParser, or a run
\* of statements made under one hold of cp.mu.  sync.RWMutex is modelled by
\* its holders: any number of readers or one writer.  (That a waiting writer
\* also holds back new readers is not modelled: it only delays them.)

\* cp.mu.RLock(), the first statement of Parse, IsCached and CacheSize, by a
\* goroutine that is in no call.  Parse is called while parses are left.
RLock(p, op, f) ==
    /\ calls[p].pc = "idle"
    /\ writer = 0
    /\ op = "Parse" =>
          objects + Cardinality({q \in Procs : calls[q].op = "Parse"
                                    /\ calls[q].pc \in {"locked", "parse"}})
             < MaxParses
    /\ readers' = readers \cup {p}
    /\ calls' = [calls EXCEPT ![p] =
                    Call(op, f, "locked",
                         IF op = "Parse" THEN returned[f] ELSE {})]
    /\ UNCHANGED <<parsedFiles, writer, objects, returned>>
    /\ UNCHANGED <<gateVars, extractVars, resolveVars, handlerVars>>

\* Parse: the lookup under the read lock; a hit returns the cached object,
\* a miss goes on to parse.  Both release the read lock first.
ParseLookup_KeepLock(p) ==
    /\ calls[p].op = "Parse"
    /\ calls[p].pc = "locked"
    /\ LET f == calls[p].file
       IN IF f \in DOMAIN parsedFiles
          THEN /\ calls' = [calls EXCEPT ![p].pc = "idle",
                                         ![p].result = parsedFiles[f]]
               /\ returned' = [returned EXCEPT ![f] = @ \cup {parsedFiles[f]}]
               /\ readers' = readers \ {p}
          ELSE /\ calls' = [calls EXCEPT ![p].pc = "parse"]
               /\ UNCHANGED <<returned, readers>>
    /\ UNCHANGED <<parsedFiles, writer, objects>>
    /\ UNCHANGED <<gateVars, extractVars, resolveVars, handlerVars>>

ParseLookup(p) ==
    /\ calls[p].op = "Parse"
    /\ calls[p].pc = "locked"
    /\ readers' = readers \ {p}
    /\ LET f == calls[p].file
       IN IF f \in DOMAIN parsedFiles
          THEN /\ calls' = [calls EXCEPT ![p].pc = "idle",
                                         ![p].result = parsedFiles[f]]
               /\ returned' = [returned EXCEPT ![f] = @ \cup {parsedFiles[f]}]
          ELSE /\ calls' = [calls EXCEPT ![p].pc = "parse"]
               /\ UNCHANGED returned
    /\ UNCHANGED <<parsedFiles, writer, objects>>
    /\ UNCHANGED <<gateVars, extractVars, resolveVars, handlerVars>>

\* Parse: cp.Parser.Parse(filename), with no lock held.  It returns an error
\* for a file go/parser rejects, and a new ParseResult otherwise.
ParserParse(p) ==
    /\ calls[p].pc = "parse"
    /\ IF calls[p].file = "bad.go"
       THEN /\ calls' = [calls EXCEPT ![p].pc = "idle", ![p].err = TRUE]
            /\ UNCHANGED objects
       ELSE /\ objects' = objects + 1
            /\ calls' = [calls EXCEPT ![p].pc = "lock",
                           ![p].result = [file |-> calls[p].file,
                                          id |-> objects + 1]]
    /\ UNCHANGED <<parsedFiles, readers, writer, returned>>
    /\ UNCHANGED <<gateVars, extractVars, resolveVars, handlerVars>>

\* cp.mu.Lock(): by Parse after a successful parse, or as the first
\* statement of ClearCache or ClearFile by a goroutine that is in no call.
Lock(p, op, f) ==
    /\ writer = 0
    /\ readers = {}
    /\ writer' = p
    /\ IF op = "Parse"
       THEN /\ calls[p].pc = "lock"
            /\ f = calls[p].file
            /\ calls' = [calls EXCEPT ![p].pc = "store"]
       ELSE /\ calls[p].pc = "idle"
            /\ calls' = [calls EXCEPT ![p] = Call(op, f, "locked", {})]
    /\ UNCHANGED <<parsedFiles, readers, objects, returned>>
    /\ UNCHANGED <<gateVars, extractVars, resolveVars, handlerVars>>

\* Parse: the insert under the write lock, the unlock and the return.
ParseStore_Misfiled(p) ==
    /\ calls[p].pc = "store"
    /\ parsedFiles' = ("a.go" :> calls[p].result) @@ parsedFiles
    /\ writer' = 0
    /\ calls' = [calls EXCEPT ![p].pc = "idle"]
    /\ returned' = [returned EXCEPT ![calls[p].file] = @ \cup {calls[p].result}]
    /\ UNCHANGED <<readers, objects>>
    /\ UNCHANGED <<gateVars, extractVars, resolveVars, handlerVars>>

ParseStore(p) ==
    /\ calls[p].pc = "store"
    /\ parsedFiles' = (calls[p].file :> calls[p].result) @@ parsedFiles
    /\ writer' = 0
    /\ calls' = [calls EXCEPT ![p].pc = "idle"]
    /\ returned' = [returned EXCEPT ![calls[p].file] = @ \cup {calls[p].result}]
    /\ UNCHANGED <<readers, objects>>
    /\ UNCHANGED <<gateVars, extractVars, resolveVars, handlerVars>>

\* ClearCache under the write lock.  (Ghost: nothing counts as returned any
\* more, for later calls and for those in progress; a call that has parsed
\* and waits for the write lock holds a result from before the clear.)
ClearCache(p) ==
    /\ calls[p].op = "ClearCache"
    /\ calls[p].pc = "locked"
    /\ parsedFiles' = <<>>
    /\ writer' = 0
    /\ calls' = [q \in Procs |->
                    IF q = p THEN [calls[q] EXCEPT !.pc = "idle"]
                    ELSE [calls[q] EXCEPT !.seen = {},
                                          !.stale = (calls[q].pc = "lock")]]
    /\ returned' = [f \in Paths |-> {}]
    /\ UNCHANGED <<readers, objects>>
    /\ UNCHANGED <<gateVars, extractVars, resolveVars, handlerVars>>

\* ClearFile under the write lock: delete(cp.parsedFiles, filename).
ClearFile_All(p) ==
    /\ calls[p].op = "ClearFile"
    /\ calls[p].pc = "locked"
    /\ parsedFiles' = <<>>
    /\ writer' = 0
    /\ calls' = [q \in Procs |->
                    IF q = p THEN [calls[q] EXCEPT !.pc = "idle"]
                    ELSE IF calls[q].file = calls[p].file
                    THEN [calls[q] EXCEPT !.seen = {},
                                          !.stale = (calls[q].pc = "lock")]
                    ELSE calls[q]]
    /\ returned' = [returned EXCEPT ![calls[p].file] = {}]
    /\ UNCHANGED <<readers, objects>>
    /\ UNCHANGED <<gateVars, extractVars, resolveVars, handlerVars>>

ClearFile(p) ==
    /\ calls[p].op = "ClearFile"
    /\ calls[p].pc = "locked"
    /\ parsedFiles' = [g \in DOMAIN parsedFiles \ {calls[p].file} |->
                          parsedFiles[g]]
    /\ writer' = 0
    /\ calls' = [q \in Procs |->
                    IF q = p THEN [calls[q] EXCEPT !.pc = "idle"]
                    ELSE IF calls[q].file = calls[p].file
                    THEN [calls[q] EXCEPT !.seen = {},
                                          !.stale = (calls[q].pc = "lock")]
                    ELSE calls[q]]
    /\ returned' = [returned EXCEPT ![calls[p].file] = {}]
    /\ UNCHANGED <<readers, objects>>
    /\ UNCHANGED <<gateVars, extractVars, resolveVars, handlerVars>>

\* IsCached and CacheSize under the read lock; answer is 1 for true.
IsCached(p) ==
    /\ calls[p].op = "IsCached"
    /\ calls[p].pc = "locked"
    /\ readers' = readers \ {p}
    /\ calls' = [calls EXCEPT ![p].pc = "idle",
                   ![p].answer = IF calls[p].file \in DOMAIN parsedFiles
                                 THEN 1 ELSE 0]
    /\ UNCHANGED <<parsedFiles, writer, objects, returned>>
    /\ UNCHANGED <<gateVars, extractVars, resolveVars, handlerVars>>

CacheSize(p) ==
    /\ calls[p].op = "CacheSize"
    /\ calls[p].pc = "locked"
    /\ readers' = readers \ {p}
    /\ calls' = [calls EXCEPT ![p].pc = "idle",
                   ![p].answer = Cardinality(DOMAIN parsedFiles)]
    /\ UNCHANGED <<parsedFiles, writer, objects, returned>>
    /\ UNCHANGED <<gateVars, extractVars, resolveVars, handlerVars>>

CacheNext ==
    \/ \E p \in Procs, f \in Paths : RLock(p, "Parse", f)
    \/ \E p \in Procs, f \in Paths : RLock(p, "IsCached", f)
    \/ \E p \in Procs : RLock(p, "CacheSize", "")
    \/ \E p \in Procs : ParseLookup(p)
    \/ \E p \in Procs : ParserParse(p)
    \/ \E p \in Procs, f \in Paths : Lock(p, "Parse", f)
    \/ \E p \in Procs, f \in Paths : Lock(p, "ClearFile", f)
    \/ \E p \in Procs : Lock(p, "ClearCache", "")
    \/ \E p \in Procs : ParseStore(p)
    \/ \E p \in Procs : ClearCache(p)
    \/ \E p \in Procs : ClearFile(p)
    \/ \E p \in Procs : IsCached(p)
    \/ \E p \in Procs : CacheSize(p)

SpecCache == AllIdle /\ [][CacheNext]_vars

----------------------------------------------------------------------------
(* Properties of the regeneration gate *)

Ran == last # Idle

\* The marker the gate can see in the prior artifact.
HasMarker(a) == a # NoFile /\ \E i \in 1..Len(a) : a[i].kind = "checksum"
MarkerOf(a) == a[CHOOSE i \in 1..Len(a) : a[i].kind = "checksum"].hex

\* C1: with no override set, generation of a file is skipped if and only if
\* the prior artifact exists, carries a checksum marker, and the marker equals
\* the hash of the current source content; in the three other cases (no
\* artifact, no marker, hashes differ) the file is parsed.
C1_GateDecisionTable ==
    (Ran /\ ~last.force) =>
        /\ last.skipped <=>
              (/\ last.prior # NoFile
               /\ HasMarker(last.prior)
               /\ MarkerOf(last.prior) = CalculateFileChecksum(last.source))
        /\ last.parsed <=> ~last.skipped
        /\ last.skipped => (~last.synthesized /\ ~last.wrote)

C1_Witness ==
    /\ Ran /\ ~last.force /\ last.skipped
    /\ HasMarker(last.prior)

C1_WitnessRegenerated ==
    /\ Ran /\ ~last.force /\ last.parsed
    /\ HasMarker(last.prior)
    /\ MarkerOf(last.prior) # CalculateFileChecksum(last.source)

\* The artifact at the output path was written by an earlier generation of
\* this same file, from content c.
WrittenFrom(c) == last.priorProv = <<last.file, c>>

C2_WitnessSkipped ==
    /\ Ran /\ ~last.force
    /\ WrittenFrom(last.source)
    /\ last.skipped

\* C3: with the override set (--force, or a non-empty APIKIT_FORCE) every file
\* the run processes is parsed and regenerated whatever the marker of its
\* artifact says, and the gate comparison is not consulted.
C3_OverrideBypassesGate ==
    (Ran /\ (flags.force \/ flags.env # "")) =>
        /\ ~last.consulted
        /\ ~last.skipped
        /\ last.parsed
        /\ (last.source.kind = "handlers") => last.synthesized
        /\ (last.source.kind = "handlers" /\ ~last.dryRun) =>
              /\ last.wrote
              /\ ExtractChecksum(art[last.out])
                    = CalculateFileChecksum(last.source)

C3_Witness ==
    /\ Ran /\ ~flags.force /\ flags.env # ""
    /\ ExtractChecksum(last.prior) = CalculateFileChecksum(last.source)
    /\ last.parsed /\ last.wrote

----------------------------------------------------------------------------
(* Properties of the classifier registry *)

\* C6: after any sequence of Register calls the registry lists each
\* registered classifier once, in non-decreasing priority number, so that
\* GetExtractor answers with a classifier of the lowest accepting priority;
\* when the registered priorities are all distinct, the place of each
\* classifier is fixed by the set registered (the number of registered
\* classifiers of lower priority), whatever the order of the calls.
DistinctPriorities(S) ==
    \A a \in S, b \in S : a # b => Priority(a) # Priority(b)

ProbeFields == PoolA \cup PoolB \cup PoolC \cup SpecialFields

C6_RegistryOrderedByPriority ==
    /\ Len(extractors) = Cardinality(Range(extractors))
    /\ \A i \in DOMAIN extractors, j \in DOMAIN extractors :
          i < j => Priority(extractors[i]) <= Priority(extractors[j])
    /\ DistinctPriorities(Range(extractors)) =>
          \A i \in DOMAIN extractors :
              Cardinality({e \in Range(extractors) :
                             Priority(e) < Priority(extractors[i])}) = i - 1
    /\ \A f \in ProbeFields :
          \A e \in Range(extractors) :
              CanExtract(e, f) =>
                  /\ GetExtractor(f) # NoExtractor
                  /\ Priority(GetExtractor(f)) <= Priority(e)

\* Every classifier registered, the user's lowest-numbered one in front.
C6_Witness ==
    /\ Range(extractors) = ExtractorNames
    /\ extractors[1] = "mockNone"
    /\ extractors[Len(extractors)] = "response"

\* The leaf fields of a struct: embedded structs expanded in place, raw-body
\* fields left out.
RECURSIVE Leaves(_)
Leaves(s) ==
    IF s = Nil \/ s.Fields = <<>> THEN <<>>
    ELSE LET f == Head(s.Fields)
             rest == Leaves([s EXCEPT !.Fields = Tail(s.Fields)])
         IN IF f.IsEmbedded THEN Leaves(f.NestedStruct) \o rest
            ELSE IF f.IsRawBody THEN rest
            ELSE <<f>> \o rest

Accepting(f) == {k \in DOMAIN extractors : CanExtract(extractors[k], f)}
FiredFor(f) == {j \in DOMAIN fired : fired[j].field = f}
LeastOf(S) == CHOOSE k \in S : \A m \in S : k <= m

HasCode(x) == x.code # Nil
Emitted == SelectSeq(fired, HasCode)

\* C5: for every non-embedded, non-raw-body field of the struct exactly one
\* classifier generates code, the first in the registry that accepts the
\* field, which has the lowest priority number of those that accept it, even
\* when the field carries markers of several sources; a field no classifier
\* accepts, an embedded field and a raw-body field get no code; the emitted
\* fragments are those of the classifiers that fired, in field order.
C5_OneClassifierPerField ==
    cur # <<>> =>
        /\ \A f \in Range(Leaves(cur)) :
              IF Accepting(f) = {} THEN FiredFor(f) = {}
              ELSE /\ Cardinality(FiredFor(f)) = 1
                   /\ \A j \in FiredFor(f) :
                         /\ fired[j].ext = extractors[LeastOf(Accepting(f))]
                         /\ \A k \in Accepting(f) :
                               Priority(fired[j].ext)
                                   <= Priority(extractors[k])
        /\ \A j \in DOMAIN fired : fired[j].field \in Range(Leaves(cur))
        /\ Len(lines) = Len(Emitted)
        /\ \A i \in DOMAIN lines : lines[i] = Emitted[i].code

\* A field tagged for both path and query got the path fragment alone.
C5_Witness ==
    /\ cur # <<>>
    /\ \E f \in Range(Leaves(cur)) :
          /\ Lookup(f.StructTag, "path").ok
          /\ Lookup(f.StructTag, "query").ok
          /\ \E j \in DOMAIN fired :
                /\ fired[j].field = f
                /\ fired[j].ext = "path"
                /\ fired[j].code \in Range(lines)

\* A field that no classifier accepts: nothing is emitted for it.
C5_WitnessNoClassifier ==
    /\ cur # <<>>
    /\ Len(Leaves(cur)) = 1
    /\ Accepting(Leaves(cur)[1]) = {}
    /\ lines = <<>>

\* The value of the first pair of the tag with this key, empty if none.
TagValue(f, key) ==
    LET at == {i \in DOMAIN f.StructTag : f.StructTag[i].key = key}
    IN IF at = {} THEN <<>> ELSE f.StructTag[LeastOf(at)].val

LowerFirst(name) ==
    IF name = <<>> THEN name
    ELSE LET at == {i \in DOMAIN UpperCase : UpperCase[i] = name[1]}
         IN IF at = {} THEN name
            ELSE [name EXCEPT ![1] = LowerCase[LeastOf(at)]]

WireName(f, source) ==
    IF TagValue(f, source) # <<>> THEN TagValue(f, source)
    ELSE IF f.InCommentName # <<>> THEN f.InCommentName
    ELSE LowerFirst(f.Name)

\* The name the fragment reads from the request.
NameRead(code) == IF code.kind = "file" THEN code.name ELSE code.var.name

C7_WitnessEmptyTag ==
    \E j \in DOMAIN Emitted :
        /\ Emitted[j].ext \in ValueSources
        /\ Lookup(Emitted[j].field.StructTag, Emitted[j].ext).ok
        /\ TagValue(Emitted[j].field, Emitted[j].ext) = <<>>
        /\ NameRead(Emitted[j].code) = <<"y">>

\* The declared default of a field, empty if none.
DefaultOf(f) == TagValue(f, "default")

\* The raw texts that convert to a value of the type, for the types the
\* helpers convert; every text is a value of any other type.
Converts(type, raw) ==
    CASE type \in {"int", "int8", "int16", "int32", "int64"} ->
            raw \in {"42", "-7"}
      [] type \in {"uint", "uint8", "uint16", "uint32", "uint64"} ->
            raw = "42"
      [] type \in {"float32", "float64"} -> raw \in {"42", "-7", "1.5"}
      [] type = "bool" -> raw = "true"
      [] type = "time.Time" -> raw = "2024-01-02"
      [] OTHER -> TRUE

DefaultAssigned(res, f) ==
    res.set /\ res.value[1] = "lit" /\ res.value[2] = DefaultOf(f)

C8_WitnessDefault ==
    /\ outcome # <<>>
    /\ outcome.raw = ""
    /\ Emitted[outcome.frag].field.Type = "int"
    /\ DefaultAssigned(outcome.res, Emitted[outcome.frag].field)

----------------------------------------------------------------------------
(* Properties of nested-struct resolution *)

Finished == rpc = "done" /\ run = 2

\* The fields that name their own struct as A, *A or []A.
SelfReferences ==
    {c \in (DOMAIN heap) \X (1..2) :
        /\ c[2] <= Len(heap[c[1]].Fields)
        /\ heap[c[1]].Fields[c[2]].wrap \in {"", "*", "[]"}
        /\ TypeKey(heap[c[1]].Fields[c[2]]) = NameKey(heap[c[1]].Name)}

NestedOf(c) == heap[c[1]].Fields[c[2]].ns

\* C9: the resolution of nested structs comes to an end for every file, with
\* self-referential structs, cycles between the structs of the file and
\* cycles through the structs of a loaded package; and once ParseFile has
\* returned, a field of a struct of the file whose type is that same struct
\* holds a nested struct with the struct's name and no fields, as does every
\* copy of the struct made on the way.
C9_CyclesTerminate ==
    /\ <>Finished
    /\ [](rpc = "done" =>
            \A c \in SelfReferences :
                /\ c[1] \in {result[n] : n \in DOMAIN result}
                      => NestedOf(c) # 0
                /\ NestedOf(c) # 0 =>
                      /\ heap[NestedOf(c)].Name = heap[c[1]].Name
                      /\ heap[NestedOf(c)].Fields = <<>>)

\* A was declared with a field of type *A and ParseFile has returned.
C9_Witness ==
    /\ rpc = "done"
    /\ \E c \in SelfReferences :
          /\ c[1] = result["A"]
          /\ heap[c[1]].Fields[c[2]].wrap = "*"
          /\ NestedOf(c) # 0
          /\ heap[NestedOf(c)] = [Name |-> "A", Fields |-> <<>>]

\* A cycle through a loaded package: A embeds p.Z, whose field of type B is
\* resolved to the B of the file, which has a field of type A.
C9_WitnessMutual ==
    /\ rpc = "done"
    /\ world.A[1].type = "Z"
    /\ world.B[1].type = "A"
    /\ heap[result["A"]].Fields[1].ns # 0

\* The struct objects held by a struct map.
Held == {structs[k] : k \in DOMAIN structs} \cup {result[n] : n \in DOMAIN result}

\* The fields, of any struct object, that hold a nested struct.
Slots ==
    {c \in (DOMAIN heap) \X (1..3) :
        c[2] <= Len(heap[c[1]].Fields) /\ heap[c[1]].Fields[c[2]].ns # 0}

\* The struct at an address with all that hangs from it, down to depth d.
RECURSIVE Tree(_, _, _)
Tree(h, id, d) ==
    IF id = 0 \/ d = 0 THEN [Name |-> "", Fields |-> <<>>]
    ELSE [Name |-> h[id].Name,
          Fields |-> [i \in DOMAIN h[id].Fields |->
                        [decl |-> [h[id].Fields[i] EXCEPT !.ns = 0],
                         ns |-> h[id].Fields[i].ns,
                         nested |-> Tree(h, h[id].Fields[i].ns, d - 1)]]]

\* C10: once ParseFile has returned, no field's NestedStruct is a struct
\* object held by the result's or the parser's struct map and no two fields
\* hold the same NestedStruct object; and while one root is being resolved,
\* the entry of every other struct in the struct map, its field list and
\* the nested structs of its fields, stays as it was.
C10_CopyNeverAlias ==
    /\ [](rpc = "done" =>
            \A c \in Slots :
                /\ NestedOf(c) \notin Held
                /\ \A d \in Slots : d # c => NestedOf(d) # NestedOf(c))
    /\ [][rpc = "resolving" =>
            \A k \in DOMAIN structs :
                structs[k] # stack[1].obj =>
                    Tree(heap', structs[k], MaxDepth)
                        = Tree(heap, structs[k], MaxDepth)]_vars

\* A has a field of type B and B embeds p.Z: both the B of the file and the
\* copy of B under A hold a nested copy of Z, and they are different objects.
C10_Witness ==
    /\ rpc = "done"
    /\ world.A[1].type = "B"
    /\ world.B[1].type = "Z"
    /\ heap[result["A"]].Fields[1].ns # 0
    /\ heap[result["B"]].Fields[1].ns # 0
    /\ heap[heap[result["A"]].Fields[1].ns].Fields[1].ns # 0
    /\ heap[heap[result["A"]].Fields[1].ns].Fields[1].ns
          # heap[result["B"]].Fields[1].ns

\* C4: parsing and synthesizing the same unchanged file a second time gives
\* the artifact of the first time, whatever the order in which the struct map
\* hands out the roots in either run.
C4_Idempotent == Finished => Artifact = first

\* The file imports Q2 as q and P1 as p, and P1's file imports Q1 as q; A
\* embeds q.W and B embeds p.Z.  The two runs took the roots in different
\* orders and the fields emitted for A are those of Q1's W in one and of
\* Q2's W in the other.
C4_WitnessDiverges ==
    /\ Finished
    /\ world.imports["q"] = "Q2"
    /\ world.A = <<LocalPool[7]>>
    /\ world.B = <<LocalPool[6]>>
    /\ first["A"] = <<<<"F1", "", "", "int">>>>
    /\ Artifact["A"] = <<<<"F2", "", "", "int">>>>

----------------------------------------------------------------------------
(* Properties of the handler scan *)

HandlerNames == [i \in DOMAIN Handlers |-> Handlers[i].Name]

Occurs(seq, x) == Cardinality({i \in DOMAIN seq : seq[i] = x})

\* C11: in a file that parses, every marked function examined so far has
\* exactly one outcome, a handler or a warning, and an unmarked one has
\* none; the handlers are in source order; a warning never comes with an
\* error of the parse (the only error is that of a file that does not
\* parse, before any function is examined); and the result is returned only
\* when every function of the file has been examined.
C11_MalformedHandlerNeverAborts ==
    /\ \A i \in DOMAIN marks :
          Occurs(HandlerNames, i) + Occurs(Warnings, i)
             = IF marks[i] THEN 1 ELSE 0
    /\ \A i \in DOMAIN Handlers : Handlers[i].Name \in DOMAIN marks
    /\ \A i \in DOMAIN Warnings : Warnings[i] \in DOMAIN marks
    /\ \A i, j \in DOMAIN Handlers :
          i < j => Handlers[i].Name < Handlers[j].Name
    /\ hpc = "error" => marks = <<>> /\ Warnings = <<>> /\ Handlers = <<>>
    /\ hpc = "done" => Len(marks) = nfuncs

\* A rejected function is followed by an accepted one, and the parse returns.
C11_Witness ==
    /\ hpc = "done"
    /\ marks = <<TRUE, TRUE>>
    /\ Warnings = <<1>>
    /\ HandlerNames = <<2>>

\* The parameters (or results) a field list declares, one per name.
RECURSIVE Flatten(_)
Flatten(fields) ==
    IF fields = <<>> THEN <<>>
    ELSE [i \in 1..fields[1].names |-> fields[1].type]
         \o Flatten(Tail(fields))

\* The shape the claim requires of a handler.
RequiredShape(fn) ==
    LET ps == Flatten(fn.Params)
        rs == Flatten(fn.Results)
    IN /\ Len(ps) \in 2..4
       /\ ps[1] = "context.Context"
       /\ \A i \in 3..Len(ps) :
             ps[i] \in {"http.ResponseWriter", "*http.Request"}
       /\ Len(ps) = 4 => ps[3] # ps[4]
       /\ Len(rs) = 2
       /\ rs[2] = "error"

\* The function examined last was accepted as a handler.
Accepted == Handlers # <<>> /\ Handlers[Len(Handlers)].Name = Len(marks)

\* C12 (as stated): a marked function is accepted if and only if its first
\* parameter is context.Context, exactly one payload parameter follows, at
\* most two further parameters are a response writer and/or a request, and
\* it has exactly two results of which the second is error.
C12_HandlerSignatureAcceptance ==
    (marks # <<>> /\ decl.marked) => (Accepted <=> RequiredShape(decl))

\* func(ctx context.Context, a, b T) (R, error) is accepted: one field list
\* entry, two payload parameters.
C12_WitnessGrouped ==
    /\ Accepted
    /\ Len(decl.Params) = 2
    /\ decl.Params[2] = [names |-> 2, type |-> "T"]
    /\ decl.Params[1].names = 1
    /\ Len(Flatten(decl.Results)) = 2

----------------------------------------------------------------------------
(* Properties of the cached parser *)

\* The goroutines whose Parse(f) missed the cache and has yet to insert.
Missed(f) ==
    {p \in Procs : /\ calls[p].op = "Parse"
                   /\ calls[p].file = f
                   /\ calls[p].pc \in {"parse", "lock", "store"}}

\* This step is the return of a call `op` of p that held the lock.
Completes(p, op) ==
    /\ calls[p].op = op
    /\ calls[p].pc \in {"locked", "store"}
    /\ calls'[p].pc = "idle"

\* This step is a ClearCache, or a ClearFile of f.
Clears(f) ==
    \E p \in Procs :
        \/ Completes(p, "ClearCache")
        \/ Completes(p, "ClearFile") /\ calls[p].file = f

\* This step is a successful return of Parse by p.
ParseReturns(p) == Completes(p, "Parse") /\ ~calls'[p].err

Without(m, f) == [g \in DOMAIN m \ {f} |-> m[g]]

C13_WitnessReparsed ==
    \E f \in DOMAIN parsedFiles :
        /\ parsedFiles[f].id = 2
        /\ returned[f] = {parsedFiles[f]}
        /\ \A g \in Paths : [file |-> f, id |-> 1] \notin returned[g]

C14_NoCorruption ==
    /\ [](\A p \in Procs :
            (calls[p].op = "Parse" /\ calls[p].pc = "idle") =>
               IF calls[p].file = "bad.go"
               THEN calls[p].err /\ calls[p].result = NoResult
               ELSE /\ ~calls[p].err
                    /\ calls[p].result.file = calls[p].file
                    /\ calls[p].result.id \in 1..objects)
    /\ [](\A f \in DOMAIN parsedFiles :
            /\ parsedFiles[f].file = f
            /\ parsedFiles[f] \in returned[f])
    /\ []((\A p \in Procs : calls[p].pc = "idle") =>
             DOMAIN parsedFiles = {f \in Paths : returned[f] # {}})
    /\ [][\A f \in DOMAIN parsedFiles, p \in Procs :
            (Missed(f) = {} /\ ParseReturns(p) /\ calls[p].file = f) =>
               /\ calls'[p].result = parsedFiles[f]
               /\ parsedFiles' = parsedFiles]_vars

\* Two goroutines missed the same file at the same time, each parsed it,
\* both have returned, and the cache holds the result of one of them.
C14_Witness ==
    \E p, q \in Procs :
        /\ p # q
        /\ \A r \in Procs : calls[r].pc = "idle"
        /\ calls[p].op = "Parse" /\ calls[q].op = "Parse"
        /\ calls[p].file = "a.go" /\ calls[q].file = "a.go"
        /\ calls[p].result # calls[q].result
        /\ calls[p].seen = {} /\ calls[q].seen = {}
        /\ parsedFiles["a.go"] = calls[q].result
        /\ returned["a.go"] = {calls[p].result, calls[q].result}

\* The goroutines that hold cp.mu according to where they are.
Reading == {p \in Procs : calls[p].pc = "locked"
               /\ calls[p].op \in {"Parse", "IsCached", "CacheSize"}}
Writing == {p \in Procs : \/ calls[p].pc = "store"
                          \/ /\ calls[p].pc = "locked"
                             /\ calls[p].op \in {"ClearCache", "ClearFile"}}

\* C15: the lock is held for the lookup and for the insert only: a
\* goroutine in the parse step of Parse holds the mutex neither for reading
\* nor for writing, and neither does one waiting for the write lock.  So
\* when the only calls in progress are in or past their parse step and not
\* yet inserting, the mutex is free, and IsCached, CacheSize, ClearFile,
\* ClearCache and Parse can be entered by any goroutine that is in no call.
C15_NoLockWhileParsing ==
    /\ readers = Reading
    /\ writer # 0 => Writing = {writer}
    /\ writer = 0 => Writing = {}
    /\ \A p \in Procs : calls[p].pc \in {"parse", "lock"} =>
          p \notin readers /\ writer # p
    /\ (\A p \in Procs : calls[p].pc \in {"idle", "parse", "lock"}) =>
          \A q \in Procs : calls[q].pc = "idle" =>
             /\ ENABLED RLock(q, "IsCached", "a.go")
             /\ ENABLED RLock(q, "CacheSize", "")
             /\ ENABLED Lock(q, "ClearFile", "a.go")
             /\ ENABLED Lock(q, "ClearCache", "")
             /\ objects + Cardinality({r \in Procs : calls[r].pc = "parse"})
                   < MaxParses => ENABLED RLock(q, "Parse", "b.go")

\* While one goroutine parses, another has entered ClearCache and holds the
\* write lock.
C15_Witness ==
    \E p, q \in Procs :
        /\ calls[p].pc = "parse"
        /\ calls[q].op = "ClearCache"
        /\ calls[q].pc = "locked"
        /\ writer = q

----------------------------------------------------------------------------
(* Further properties of the emitted extraction code *)

\* The field with its source tag handed to classifier k.
Moved(f, k) ==
    [f EXCEPT !.StructTag = <<Tag(k, f.StructTag[1].val)>> \o Tail(@)]

\* A fragment up to the expression that reads the raw value.
Conversion(code) == IF code = Nil THEN Nil ELSE [code EXCEPT !.var = <<>>]

\* The struct in hand has the one field f, and classifier e generated for it.
Generated(e) ==
    /\ cur # <<>>
    /\ Len(cur.Fields) = 1
    /\ Len(fired) = 1
    /\ fired[1].ext = e

\* C16 (as stated): for a field of any scalar, pointer or slice type the
\* fragment the form classifier emits is, up to the accessor, the fragment
\* the path, query, header and cookie classifiers emit for a field of that
\* type (query and header for a slice, which are the ones that read
\* repeated values).
C16_ConversionIndependentOfSource ==
    (Generated("form") /\ cur.Fields[1] \in TypedFields \cup SliceFields) =>
        LET f == cur.Fields[1]
        IN \A k \in (IF f.IsSlice THEN {"query", "header"}
                     ELSE {"path", "query", "header", "cookie"}) :
              Conversion(fired[1].code)
                 = Conversion(GenerateCode(k, Moved(f, k)).code)

\* For a *int form field the fragment is payload.Age = *int(val): a cast
\* of the raw text, where the query classifier emits a strconv.ParseInt.
C16_WitnessFormPointer ==
    /\ Generated("form")
    /\ cur.Fields[1].Type = "*int"
    /\ lines[1].then = AssignStmt(Names.Age, CastExpr("*int", "val"))
    /\ GenerateCode("query", Moved(cur.Fields[1], "query")).code.then.op
          = "parse"

\* The raw texts the element type accepts, none if it needs no conversion.
NeedsConversion(elem) ==
    \/ IsIntType(elem) \/ IsUintType(elem) \/ IsFloatType(elem)
    \/ IsBoolType(elem)
    \/ elem \in RegisteredTypes /\ ~IsStringType(elem)

\* C17 (as stated): for a slice field whose element type needs conversion,
\* whichever classifier handles it, the emitted code run on the values of a
\* request converts every element; if some element does not convert, the
\* code returns an error that carries the index of the first such element,
\* and assigns nothing unconverted.
C17_SliceElementsConverted ==
    multi # <<>> =>
        LET f == Emitted[multi.frag].field
            bad == {i \in DOMAIN multi.raws :
                       ~Converts(f.SliceType, multi.raws[i])}
        IN (f.IsSlice /\ ~f.IsFile /\ NeedsConversion(f.SliceType)
              /\ multi.raws # <<>>) =>
              IF bad = {}
              THEN multi.res.set /\ multi.res.value[1] = "convs"
              ELSE /\ multi.res.err
                   /\ multi.res.value[1] = "index"
                   /\ multi.res.value[2] + 1 \in bad
                   /\ \A i \in bad : multi.res.value[2] + 1 <= i

\* A []int form field sent "abc": the text is assigned as it is, no error.
C17_WitnessFormUnconverted ==
    /\ multi # <<>>
    /\ Generated("form")
    /\ cur.Fields[1].Type = "[]int"
    /\ multi.raws = <<"abc">>
    /\ ~multi.res.err
    /\ multi.res.value = <<"strs", <<"abc">>>>

\* A []time.Time query field whose second value is no time: the error
\* names `parsed` and carries no index.
C17_WitnessCodecNoIndex ==
    /\ multi # <<>>
    /\ Generated("query")
    /\ cur.Fields[1].Type = "[]time.Time"
    /\ multi.raws = <<"2024-01-02", "abc">>
    /\ multi.res.err
    /\ multi.res.value[1] = "name"

\* C18 (as stated): the fragments emitted for a payload are in classifier
\* priority order, whatever the order of its fields; for the example payload
\* they are those of ID, Filter and Tags in this order, and the body,
\* validation and multipart flags are false.
C18_ExtractionInPriorityOrder ==
    cur # <<>> =>
        /\ \A i, j \in DOMAIN Emitted :
              i < j => Priority(Emitted[i].ext) <= Priority(Emitted[j].ext)
        /\ cur = ExamplePayload =>
              /\ [i \in DOMAIN Emitted |-> Emitted[i].field.Name]
                    = <<Names.ID, Names.Filter, Names.Tags>>
              /\ HandlerFlags(cur)
                    = [HasBody |-> FALSE, HasValidation |-> FALSE,
                       HasMultipartForm |-> FALSE]

\* A payload that declares a query field before a path field: the query
\* fragment comes first.
C18_WitnessDeclarationOrder ==
    /\ cur # <<>>
    /\ Len(cur.Fields) = 2
    /\ [i \in DOMAIN Emitted |-> Emitted[i].ext] = <<"query", "path">>
    /\ [i \in DOMAIN Emitted |-> Emitted[i].field] = cur.Fields

----------------------------------------------------------------------------
(* A further property of nested-struct resolution *)

\* The package of a field of the parsed file, by the file's import table.
PathOf(f) == IF f.alias = "" THEN "" ELSE world.imports[f.alias]

\* The field's qualified type cannot be resolved: its alias is not in the
\* import table, the package does not load, or it has no such struct.
LoadFails(f) ==
    /\ f.alias # ""
    /\ \/ PathOf(f) = ""
       \/ loadExternalStruct(PathOf(f), f.type) = <<>>

\* The field names a struct of the file, or of a package that provides it.
Resolves(f) ==
    /\ f.wrap # "[]*"
    /\ \/ f.alias = "" /\ f.type \in {"A", "B"}
       \/ f.alias # "" /\ PathOf(f) # ""
            /\ loadExternalStruct(PathOf(f), f.type) # <<>>

\* C19 (as stated): when ParseFile has returned, every field of a struct
\* of the file is as declared; one whose qualified type cannot be resolved
\* has no NestedStruct, and the fields that name a struct of the file or of
\* a package that provides it have theirs.
C19_LoadFailuresDegradeSilently ==
    rpc = "done" =>
        \A n \in {"A", "B"} : \A i \in DOMAIN world[n] :
            LET f == heap[result[n]].Fields[i]
            IN /\ [f EXCEPT !.ns = 0] = world[n][i]
               /\ LoadFails(f) => f.ns = 0
               /\ Resolves(f) => f.ns # 0

\* The file imports no q, or a q that has no W, and embeds q.W after p.Z,
\* whose own file imports Q1 as q: the field has the W of Q1.
C19_WitnessResolvedFromCache ==
    /\ rpc = "done"
    /\ \E n \in {"A", "B"} : \E i \in DOMAIN world[n] :
          LET f == heap[result[n]].Fields[i]
          IN /\ LoadFails(f)
             /\ f.ns # 0
             /\ heap[f.ns].Fields = Packages.Q1.decls[1].Fields

----------------------------------------------------------------------------
(* A further property of the regeneration gate *)

\* The text without its line i.
DropLine(text, i) == SubSeq(text, 1, i - 1) \o SubSeq(text, i + 1, Len(text))

\* C20: when a run has written an artifact, it is the generated content
\* with one line added, the checksum line of the source hash; that line is
\* the one right after the banner line, it is among the lines
\* ExtractChecksum inspects, and ExtractChecksum returns the source hash.
C20_MarkerRoundTrip ==
    (Ran /\ last.wrote) =>
        LET c == Generate(last.source)
            h == CalculateFileChecksum(last.source)
            a == art[last.out]
            b == FirstFrom(c, 1, Len(c), "banner")
        IN /\ a = AddChecksumToGenerated(c, h)
           /\ b # 0
           /\ a[b] = BannerLine
           /\ a[b + 1] = ChecksumLine(h)
           /\ DropLine(a, b + 1) = c
           /\ b + 1 <= ScanLimit
           /\ ExtractChecksum(a) = h

\* A run has replaced an artifact that carried the hash of another content.
C20_Witness ==
    /\ Ran /\ last.wrote
    /\ HasMarker(last.prior)
    /\ ExtractChecksum(last.prior) # CalculateFileChecksum(last.source)
    /\ art[last.out][2] = ChecksumLine(CalculateFileChecksum(last.source))
    /\ ExtractChecksum(art[last.out]) = CalculateFileChecksum(last.source)

\* C21 (as stated): after the processing of a file that ends without error
\* in a run that is not a dry run, an artifact at the file's output path
\* carries the hash of the source as the run read it, whatever the source
\* declares.
C21_ArtifactFreshness ==
    (Ran /\ ~last.failed /\ ~last.dryRun /\ art[last.out] # NoFile) =>
        ExtractChecksum(art[last.out]) = CalculateFileChecksum(last.source)

\* The source was edited and no longer declares a handler: the run parses
\* it, writes nothing, and the artifact of the earlier content stays.
C21_WitnessStale ==
    /\ Ran /\ ~last.failed /\ ~last.dryRun
    /\ last.parsed /\ ~last.wrote
    /\ last.source.kind = "nohandlers"
    /\ \E c \in Contents : WrittenFrom(c) /\ c # last.source
    /\ art[last.out] = last.prior
    /\ ExtractChecksum(art[last.out]) # CalculateFileChecksum(last.source)

\* The artifact at o is as the run that wrote it left it.
Intact(o) ==
    prov[o] # NoProv =>
        art[o] = AddChecksumToGenerated(Generate(prov[o][2]),
                                        CalculateFileChecksum(prov[o][2]))

\* C29 (as stated): when a file of a batch has been processed, the files
\* given after it are still to be processed, in the order given, also when
\* its source text did not parse; in that case nothing was written for it
\* and the artifacts written before are in place.
C29_BatchProcessing ==
    Ran =>
        /\ queue = last.rest
        /\ last.failed =>
              /\ art[last.out] = last.prior
              /\ \A o \in OutPaths : Intact(o)

\* The first file of a batch of two does not parse: the run ends with the
\* second file never looked at.
C29_WitnessAborted ==
    /\ Ran /\ last.failed
    /\ last.rest # <<>>
    /\ queue = <<>>
    /\ src[last.rest[1]].kind = "handlers"
    /\ art[Output(last.rest[1], flags)] = NoFile

----------------------------------------------------------------------------
(* A further property of the parsed-file cache *)

\* The result of goroutine p's call was parsed before an invalidation of
\* its file that has returned since.
ParsedBeforeClear(p) == calls[p].op = "Parse" /\ calls[p].stale

\* C24 (as stated): the cache holds no result that was parsed before an
\* invalidation of its file, and no Parse returns one.
C24_InvalidationNotUndone ==
    \A p \in Procs :
        ParsedBeforeClear(p) =>
            /\ \A f \in DOMAIN parsedFiles : parsedFiles[f] # calls[p].result
            /\ \A q \in Procs \ {p} :
                  (calls[q].op = "Parse" /\ calls[q].pc = "idle")
                     => calls[q].result # calls[p].result

\* A Parse that had parsed a.go before ClearFile("a.go") returned has stored
\* its result after it; the cache holds it and a later Parse got it.
C24_WitnessStaleStored ==
    \E p \in Procs : \E q \in Procs \ {p} :
        /\ ParsedBeforeClear(p)
        /\ calls[p].pc = "idle"
        /\ "a.go" \in DOMAIN parsedFiles
        /\ parsedFiles["a.go"] = calls[p].result
        /\ calls[q].op = "Parse" /\ calls[q].pc = "idle"
        /\ calls[q].result = calls[p].result

----------------------------------------------------------------------------
(* Further properties of nested-struct resolution *)

\* The field's base type, pointer and slice stripped, is a struct of the
\* parsed file.
LocallyKnown(f) == f.alias = "" /\ f.type \in {"A", "B"}

\* The fields as declared: without what resolution attached.
Declared(fields) == [i \in DOMAIN fields |-> [fields[i] EXCEPT !.ns = 0]]

\* Below the object at id, reached through structs named in anc, every
\* field of a locally known struct type that is not in anc has a snapshot
\* with the struct's full field list, itself complete.
RECURSIVE CompleteBelow(_, _)
CompleteBelow(id, anc) ==
    \A i \in DOMAIN heap[id].Fields :
        LET f == heap[id].Fields[i]
        IN /\ (LocallyKnown(f) /\ f.type \notin anc) =>
                 /\ f.ns # 0
                 /\ heap[f.ns].Name = f.type
                 /\ Declared(heap[f.ns].Fields) = world[f.type]
           /\ (f.ns # 0 /\ heap[f.ns].Name \notin anc) =>
                 CompleteBelow(f.ns, anc \cup {heap[f.ns].Name})

\* C22 (as stated): when ParseFile has returned, every root struct is
\* resolved completely outside cycles.
C22_ResolutionCompleteOutsideCycles ==
    rpc = "done" =>
        \A n \in {"A", "B"} : CompleteBelow(result[n], {n})

\* Two sibling fields of A have the struct type B, which has a field: the
\* first carries B's field list, the second an empty one.
C22_WitnessSibling ==
    /\ rpc = "done"
    /\ Len(world.A) = 2
    /\ world.A[1].Name = "Y" /\ world.A[2].Name = "Y2"
    /\ world.B # <<>>
    /\ LET a == heap[result["A"]]
       IN /\ a.Fields[1].ns # 0 /\ a.Fields[2].ns # 0
          /\ Declared(heap[a.Fields[1].ns].Fields) = world.B
          /\ heap[a.Fields[2].ns].Fields = <<>>

\* C23 (as stated): what the resolution of a file attaches to its structs
\* when the file is parsed after another file of the batch, by the parser
\* that parsed that file, is what a new parser attaches to them.
C23_BatchIndependence ==
    (rpc = "done" /\ run = 2) =>
        \A n \in {"A", "B"} : first[n] = Artifact[n]

\* The first file imports Q1 as q and embeds q.W; the second imports Q2 as
\* q and embeds q.W: in the batch its struct A has the field of Q1's W,
\* parsed alone it has the field of Q2's W.
C23_WitnessOtherPackage ==
    /\ rpc = "done" /\ run = 2
    /\ world.imports["q"] = "Q2"
    /\ world.A[1].Name = "W"
    /\ world.B[1].Name = "N"
    /\ first["A"] = <<<<"F1", "", "", "int">>>>
    /\ Artifact["A"] = <<<<"F2", "", "", "int">>>>

----------------------------------------------------------------------------
(* A property of the codec registry *)

\* C25 (as stated): for a struct of one scalar field whose base type has a
\* codec, built in or registered at run time, the conversion statement of
\* the emitted fragment is what the codec's ParseFunc returns for the
\* value, the field and whether the field is a pointer.
C25_ConversionDelegatedToRegistry ==
    (cur # <<>> /\ Len(fired) = 1
       /\ GetBaseType(cur.Fields[1]) \in RegisteredTypes \cup codecs) =>
        LET f == cur.Fields[1]
        IN fired[1].code.then
              = ParseFunc(GetBaseType(f), "val", f.Name, f.IsPointer)

\* A codec was registered under the name int, and the field is a *int read
\* from the query: the fragment still calls strconv.ParseInt, and assigns
\* the value, not its address.
C25_WitnessBuiltinWins ==
    /\ cur # <<>> /\ Len(fired) = 1
    /\ "int" \in codecs
    /\ cur.Fields[1].Type = "*int"
    /\ fired[1].ext = "query"
    /\ fired[1].code.then
          = ParseStmt("strconv.ParseInt", "val", "int", Names.Age, FALSE)
    /\ ParseFunc("int", "val", Names.Age, TRUE).fn = "custom.Parse"

----------------------------------------------------------------------------
(* Further properties of the classifiers and of the handler data *)

\* Every field of the payload, through embedded and nested structs alike.
RECURSIVE Everywhere(_)
Everywhere(s) ==
    IF s.Fields = <<>> THEN {}
    ELSE LET f == Head(s.Fields)
         IN (IF f.NestedStruct # Nil THEN Everywhere(f.NestedStruct) ELSE {})
            \cup {f} \cup Everywhere([s EXCEPT !.Fields = Tail(s.Fields)])

HasValidateTag(f) == f.StructTag # <<>> /\ Lookup(f.StructTag, "validate").ok

\* C26 (as stated): HasValidation is true if and only if some field of the
\* payload, at any depth and under embedded or named struct fields, has a
\* validate tag.
C26_ValidationDetectionRecursive ==
    cur # <<>> =>
        (HandlerFlags(cur).HasValidation
            <=> \E f \in Everywhere(cur) : HasValidateTag(f))

\* The payload has a named (not embedded) field In of a struct type whose
\* embedded struct has a field with a validate tag: the flag is false.
C26_WitnessNestedMissed ==
    /\ cur # <<>>
    /\ Len(cur.Fields) = 1
    /\ ~cur.Fields[1].IsEmbedded
    /\ cur.Fields[1].NestedStruct # Nil
    /\ cur.Fields[1].NestedStruct.Fields[1].IsEmbedded
    /\ \E f \in Everywhere(cur) : HasValidateTag(f)
    /\ ~HandlerFlags(cur).HasValidation

\* C27 (as stated): in the code a value classifier emits for a field
\* without a non-empty tag for its source, the wire name is the name given
\* in the field's in: comment if the comment names that classifier's source,
\* and the declared name with its first letter lower-cased if the comment
\* names another source.
C27_CommentNameOnlyForItsSource ==
    \A j \in DOMAIN Emitted :
        LET f == Emitted[j].field
        IN (Emitted[j].ext \in ValueSources
              /\ TagValue(f, Emitted[j].ext) = <<>>
              /\ f.InCommentName # <<>>) =>
              NameRead(Emitted[j].code)
                 = IF f.InComment = Emitted[j].ext THEN f.InCommentName
                   ELSE LowerFirst(f.Name)

\* A field ID with the tag path:"" and the comment 'in: query y': the
\* path classifier fires and its code reads the path parameter "y".
C27_WitnessForeignName ==
    \E j \in DOMAIN Emitted :
        /\ Emitted[j].ext = "path"
        /\ Lookup(Emitted[j].field.StructTag, "path").ok
        /\ Emitted[j].field.InComment = "query"
        /\ Emitted[j].field.InCommentName = <<"y">>
        /\ Emitted[j].field.Name = Names.ID
        /\ NameRead(Emitted[j].code) = <<"y">>

\* C28 (as stated): when the field in hand is the parse of a declaration
\* that has a 'default: VALUE' comment and no default tag, the code emitted
\* for it, run on an absent or empty raw input, assigns VALUE.
C28_CommentDefaultTakesEffect ==
    (outcome # <<>> /\ outcome.raw = "") =>
        LET f == Emitted[outcome.frag].field
        IN \A d \in Declarations :
              (parseField(d) = f /\ d.defaultFromComment # <<>>
                 /\ DefaultOf(f) = <<>>) =>
                 /\ outcome.res.set
                 /\ outcome.res.value[1] = "lit"
                 /\ outcome.res.value[2] = d.defaultFromComment

\* Age int `query:""` // default: 9, run on a request without the
\* parameter: nothing is assigned.
C28_WitnessCommentIgnored ==
    /\ outcome # <<>> /\ outcome.raw = ""
    /\ \E d \in Declarations :
          /\ d.type = "int"
          /\ d.defaultFromComment = <<"9">>
          /\ parseField(d) = Emitted[outcome.frag].field
          /\ DefaultOf(parseField(d)) = <<>>
    /\ lines[outcome.frag].else = Nil
    /\ outcome.res = Unset

\* C30 (as stated): the wrapper names and the payload-parser names prepared
\* for distinct accepted handlers of one file are pairwise distinct.
C30_GeneratedNamesUnique ==
    \A i, j \in DOMAIN data :
       i # j => /\ data[i].WrapperName # data[j].WrapperName
                /\ data[i].ParseFuncName # data[j].ParseFuncName

\* Methods of one name on two receiver types, and two functions whose names
\* differ in the case of the first letter, have been given the same names.
C30_WitnessSameNames ==
    /\ Len(data) = 2 /\ Len(Handlers) = 2
    /\ data[1].WrapperName = data[2].WrapperName
    /\ data[1].ParseFuncName = data[2].ParseFuncName
    /\ \/ /\ Handlers[1].Name = Handlers[2].Name
          /\ Handlers[1].Receiver # Handlers[2].Receiver
       \/ /\ Handlers[1].Name # Handlers[2].Name
          /\ Handlers[1].Receiver = "" /\ Handlers[2].Receiver = ""

============================================================================
